---- MODULE Spec2Model ----
(***************************************************************************)
(* A model of jfrog/go-dbmigrate: the driver registry (driver/registry.go, *)
(* driver/driver.go), and the Migrate / Version / Close / Initialize       *)
(* operations of the postgres and the generic (named-method) drivers.      *)
(*                                                                         *)
(* The specifications share the variables:                                 *)
(*   SpecRegistry  goroutines calling RegisterDriver, GetDriverGenerator,  *)
(*                 Drivers and New concurrently, one step of code at a time*)
(*   Spec          one caller driving one driver instance against one      *)
(*                 backend, Migrate running one statement at a time        *)
(*   SpecMethods, SpecSetup, SpecPipe  the same caller, with named-method  *)
(*                 files, with urls of all shapes, with a fair schedule    *)
(*   SpecLock, SpecLockId, SpecPool  Lock, Unlock and the bootstrap step   *)
(*   SpecRunners   processes migrating one database concurrently           *)
(*   SpecReceiver  registering methods receivers and making drivers        *)
(***************************************************************************)
EXTENDS Integers, Sequences, FiniteSets, TLC

(* ---------------------------------------------------------------- bounds *)
\* the connections an *sql.DB keeps open at a time
NumSessions == 3
\* how often a session is let take the advisory lock it already holds
MaxHolds == 2
\* goroutines that call the registry concurrently
NumGoroutines == 2
\* runners migrating against one database at a time
NumRunners == 2
\* Migrate calls a runner makes
MaxCalls == 2
\* processes, each with its own Driver, that share one backend
NumProcs == 2
\* migration versions 1..MaxVersion
MaxVersion == 2
\* method names listed in one named-method migration file
MaxMethods == 2
\* the same, where only named-method files are migrated (SpecMethods)
MaxNames == 3

Goroutines == 1..NumGoroutines
Versions == 1..MaxVersion

(* ====================================================================== *)
(*                          THE DRIVER REGISTRY                            *)
(* ====================================================================== *)

\* scheme names, in the order sort.Strings gives them
NameOrder == <<"generic", "postgres">>
Names == {NameOrder[i] : i \in 1..Len(NameOrder)}

\* FilenameExtension() values a registered driver may return, as byte strings
Exts == {<<"s">>, <<>>, <<".", "s">>}

\* a *DriverGenerator: id tells two generators apart, fn is fnGenerator
NoGen == [id |-> 0, fn |-> "none"]
GensOf(g) == {[id |-> g, fn |-> "func"], [id |-> g, fn |-> "nil"]}

NoOne == 0
NoCall == [op |-> "none", name |-> "", gen |-> NoGen]
NoRet == [kind |-> "none", gen |-> NoGen, ok |-> FALSE, list |-> <<>>, ext |-> <<>>]
Ret(k, d, ok, l) == [kind |-> k, gen |-> d, ok |-> ok, list |-> l, ext |-> <<>>]

VARIABLES
  drivers,     \* registry.go: var drivers, scheme name -> generator (NoGen: absent)
  driversMu,   \* registry.go: var driversMu, the goroutine holding it or NoOne
  writing,     \* the name whose map entry is being stored right now ("" if none)
  rpc,         \* each goroutine's position in its registry call
  rcall,       \* each goroutine's current (or last) call
  rfound,      \* the local (generator, exists) pair: New's gen, exists and RegisterDriver's dup
  rret,        \* each goroutine's last result
  regWins,     \* history: per name, how many RegisterDriver calls stored an entry
  torn,        \* history: a lookup ran while an entry was being stored
  firstGen     \* history: per name, the first generator ever stored

regVars == <<drivers, driversMu, writing, rpc, rcall, rfound, rret, regWins, torn, firstGen>>

\* the driver instance and its backend (see the second part)
VARIABLES
  kind,        \* which driver the instance is: "none" (not constructed), "postgres", "generic"
  receiver,    \* generic Driver.methodsReceiver is set
  db,          \* Driver.db: "nil", "open", or "closed" (an *sql.DB after Close)
  url,         \* Driver.url
  isLocked,    \* Driver.isLocked
  ready,       \* Initialize returned nil (generic: Driver.migrator has its MethodInvoker)
  advLock,     \* backend: how often the driver's session holds the advisory lock
  tableExists, \* backend: the version table exists
  table,       \* backend: the committed rows of the version table
  data,        \* backend: the committed effects of migration content, <<version, unit>>
  tx,          \* postgres Migrate: the transaction of the current (or last) call
  leaked,      \* backend: <<version, "ins"|"del">> row locks of transactions never ended
  pc,          \* position of the Migrate call ("idle": none running)
  f,           \* the file of the current (or last) Migrate call
  idx,         \* the method the named-method migrator is at
  pipe,        \* the pipe of the current (or last) Migrate call: values sent, then the close
  result,      \* what the last Initialize / Version / Close returned
  pre,         \* history: version table and data when the current Migrate call started
  applied,     \* history: versions whose Up was committed and not their Down since
  upSnap,      \* history: the last Migrate, if a successful Up: its version, Version() before
  roundTrip,   \* history: set when a successful Down directly follows its successful Up
  conn,        \* history: the connection check of the current (or last) Migrate / Version call
  initFailed,  \* history: Initialize was called and no call has stored a connection yet
  failed,      \* history: a Migrate call of this instance has reported an error
  initCall,    \* history: the url the last Initialize was given, and the one it opened
  received     \* the consumer of the pipe: how many of its values (and its close) it has seen

drvVars == <<kind, receiver, db, url, isLocked, ready, advLock, tableExists, table, data,
             tx, leaked, pc, f, idx, pipe, result, pre, applied, upSnap, roundTrip,
             conn, initFailed, failed, initCall, received>>

\* several processes, each with its own Driver, against one backend (third part)
VARIABLES
  procDb,        \* per process: Driver.db, "nil" or "open"
  procIsLocked,  \* per process: Driver.isLocked
  procPc,        \* per process: where its call is
  procOp,        \* per process: the call being made: "Initialize", "Lock", "Unlock"
  procRes,       \* per process: what its last call returned
  sessionLocks,  \* backend: how often each process's session holds the advisory lock
  tableCreated   \* backend: the version table exists

lockVars == <<procDb, procIsLocked, procPc, procOp, procRes, sessionLocks, tableCreated>>

\* callers of GenerateAdvisoryLockId (fourth part)
VARIABLES
  aid            \* per process: the arguments and result of its last GenerateAdvisoryLockId

idVars == <<aid>>

\* the methods receivers registered for the named-method drivers (fifth part)
VARIABLES
  fnInitOptions, \* per driver name: DriverGenerator.fnInitOptions, the receiver each registers
  rcvRes         \* the last RegisterMethodsReceiverForDriver or New call and its outcome

rcvVars == <<fnInitOptions, rcvRes>>

\* one Driver whose db handle is a pool of backend sessions (sixth part)
VARIABLES
  poolIsLocked,  \* Driver.isLocked
  poolHeld,      \* backend: how often each session of the pool holds the advisory lock
  poolPc,        \* where the call is: "idle", or "wait" (pg_advisory_lock sent)
  poolConn,      \* the session that ran the command of the current (or last) call
  poolRes        \* what the last Lock or Unlock returned

poolVars == <<poolIsLocked, poolHeld, poolPc, poolConn, poolRes>>

\* runners, each a process with its own postgres Driver, migrating against one
\* database (seventh part)
VARIABLES
  runPc,      \* per runner: where its Migrate call is ("idle": none running)
  runF,       \* per runner: the version of the Up file of its current (or last) call
  runTx,      \* per runner: the transaction of its current (or last) call
  runRes,     \* per runner: what its current (or last) call has reported
  runCalls,   \* per runner: how many Migrate calls it has made
  runLeaked,  \* backend, per runner: row locks of its transactions never ended
  runTable,   \* backend: per version, the committed rows of the version table
  runData     \* backend: per version, how often its content has been persisted

runVars == <<runPc, runF, runTx, runRes, runCalls, runLeaked, runTable, runData>>

vars == <<regVars, drvVars, lockVars, idVars, rcvVars, poolVars, runVars>>

RegInit ==
  /\ drivers = [n \in Names |-> NoGen]
  /\ driversMu = NoOne
  /\ writing = ""
  /\ rpc = [g \in Goroutines |-> "idle"]
  /\ rcall = [g \in Goroutines |-> NoCall]
  /\ rfound = [g \in Goroutines |-> NoRet]
  /\ rret = [g \in Goroutines |-> NoRet]
  /\ regWins = [n \in Names |-> 0]
  /\ torn = FALSE
  /\ firstGen = [n \in Names |-> NoGen]

\* sort.Strings over the keys of the map
SortedNames(S) == SelectSeq(NameOrder, LAMBDA n : n \in S)

\* (variant: a mutex that never makes a caller wait)
MutexAlwaysFree(mu) == TRUE

\* sync.Mutex.Lock returns only when nobody holds the mutex
MutexFree(mu) == mu = NoOne

\* a goroutine enters one of the four registry functions
RegCall(g) ==
  /\ rpc[g] = "idle"
  /\ \E c \in {[op |-> "RegisterDriver", name |-> n, gen |-> d] : n \in Names, d \in GensOf(g)}
          \cup {[op |-> "GetDriverGenerator", name |-> n, gen |-> NoGen] : n \in Names}
          \cup {[op |-> "Drivers", name |-> "", gen |-> NoGen]}
          \cup {[op |-> "New", name |-> n, gen |-> NoGen] : n \in Names} :
       /\ rcall' = [rcall EXCEPT ![g] = c]
       /\ rpc' = [rpc EXCEPT ![g] = "lock"]
  /\ rret' = [rret EXCEPT ![g] = NoRet]
  /\ rfound' = [rfound EXCEPT ![g] = NoRet]
  /\ UNCHANGED <<drivers, driversMu, writing, regWins, torn, firstGen>>
  /\ UNCHANGED <<drvVars, lockVars, idVars, rcvVars, poolVars, runVars>>

\* New with a url neturl.Parse rejects: returns before any lookup
NewBadUrl(g) ==
  /\ rpc[g] = "idle"
  /\ rcall' = [rcall EXCEPT ![g] = [op |-> "New", name |-> "", gen |-> NoGen]]
  /\ rret' = [rret EXCEPT ![g] = Ret("error_parse", NoGen, FALSE, <<>>)]
  /\ rfound' = [rfound EXCEPT ![g] = NoRet]
  /\ UNCHANGED <<drivers, driversMu, writing, rpc, regWins, torn, firstGen>>
  /\ UNCHANGED <<drvVars, lockVars, idVars, rcvVars, poolVars, runVars>>

\* driversMu.Lock()
MuLock(g) ==
  /\ rpc[g] = "lock"
  /\ MutexFree(driversMu)
  /\ driversMu' = g
  /\ rpc' = [rpc EXCEPT ![g] = "body"]
  /\ UNCHANGED <<drivers, writing, rcall, rfound, rret, regWins, torn, firstGen>>
  /\ UNCHANGED <<drvVars, lockVars, idVars, rcvVars, poolVars, runVars>>

\* driver, ok := drivers[name]
Lookup(m, n) == Ret("lookup", m[n], m[n] # NoGen, <<>>)

\* (variant: RegisterDriver without its duplicate check)
RegisterCheckNoDup(m, c) == IF c.gen.fn = "nil" THEN "panic_nil" ELSE "store"

\* RegisterDriver's two checks: a panic unwinds to the deferred Unlock
RegisterCheck(m, c) ==
  IF c.gen.fn = "nil" THEN "panic_nil"
  ELSE IF m[c.name] # NoGen THEN "panic_dup"
  ELSE "store"

\* (variant: a panic that leaves RegisterDriver without running the Unlock)
AfterRegisterPanicKeepsMutex == "idle"

\* defer driversMu.Unlock(): the panic runs the deferred call on its way out
AfterRegisterPanic == "unlock"

RegisterBody(g) ==
  /\ rpc[g] = "body"
  /\ rcall[g].op = "RegisterDriver"
  /\ LET r == RegisterCheck(drivers, rcall[g]) IN
       /\ IF r = "store"
          THEN /\ writing' = rcall[g].name
               /\ rpc' = [rpc EXCEPT ![g] = "store"]
               /\ UNCHANGED rret
          ELSE /\ rret' = [rret EXCEPT ![g] = Ret(r, NoGen, FALSE, <<>>)]
               /\ rpc' = [rpc EXCEPT ![g] = AfterRegisterPanic]
               /\ UNCHANGED writing
       /\ rfound' = [rfound EXCEPT ![g] =
                       IF r = "panic_nil" THEN NoRet ELSE Lookup(drivers, rcall[g].name)]
  /\ UNCHANGED <<drivers, driversMu, rcall, regWins, torn, firstGen>>
  /\ UNCHANGED <<drvVars, lockVars, idVars, rcvVars, poolVars, runVars>>

\* drivers[name] = driver
RegisterStore(g) ==
  /\ rpc[g] = "store"
  /\ drivers' = [drivers EXCEPT ![rcall[g].name] = rcall[g].gen]
  /\ writing' = ""
  /\ regWins' = [regWins EXCEPT ![rcall[g].name] = @ + 1]
  /\ firstGen' = [firstGen EXCEPT ![rcall[g].name] = IF @ = NoGen THEN rcall[g].gen ELSE @]
  /\ rret' = [rret EXCEPT ![g] = Ret("registered", rcall[g].gen, TRUE, <<>>)]
  /\ rpc' = [rpc EXCEPT ![g] = "unlock"]
  /\ UNCHANGED <<driversMu, rcall, rfound, torn>>
  /\ UNCHANGED <<drvVars, lockVars, idVars, rcvVars, poolVars, runVars>>

GetBody(g) ==
  /\ rpc[g] = "body"
  /\ rcall[g].op \in {"GetDriverGenerator", "New"}
  /\ IF rcall[g].op = "New"
     THEN rfound' = [rfound EXCEPT ![g] = Lookup(drivers, rcall[g].name)] /\ UNCHANGED rret
     ELSE rret' = [rret EXCEPT ![g] = Lookup(drivers, rcall[g].name)] /\ UNCHANGED rfound
  /\ torn' = (torn \/ writing # "")
  /\ rpc' = [rpc EXCEPT ![g] = "unlock"]
  /\ UNCHANGED <<drivers, driversMu, writing, rcall, regWins, firstGen>>
  /\ UNCHANGED <<drvVars, lockVars, idVars, rcvVars, poolVars, runVars>>

\* for name := range drivers { list = append(list, name) }; sort.Strings(list)
DriversBody(g) ==
  /\ rpc[g] = "body"
  /\ rcall[g].op = "Drivers"
  /\ rret' = [rret EXCEPT ![g] = Ret("list", NoGen, TRUE, SortedNames({n \in Names : drivers[n] # NoGen}))]
  /\ torn' = (torn \/ writing # "")
  /\ rpc' = [rpc EXCEPT ![g] = "unlock"]
  /\ UNCHANGED <<drivers, driversMu, writing, rcall, rfound, regWins, firstGen>>
  /\ UNCHANGED <<drvVars, lockVars, idVars, rcvVars, poolVars, runVars>>

\* the deferred driversMu.Unlock(), on return and on panic alike
MuUnlock(g) ==
  /\ rpc[g] = "unlock"
  /\ driversMu' = NoOne
  /\ rpc' = [rpc EXCEPT ![g] = IF rcall[g].op = "New" THEN "new" ELSE "idle"]
  /\ UNCHANGED <<drivers, writing, rcall, rfound, rret, regWins, torn, firstGen>>
  /\ UNCHANGED <<drvVars, lockVars, idVars, rcvVars, poolVars, runVars>>

\* New, after GetDriverGenerator returned: not found is an error value; a found
\* generator is run, and the driver it makes has some FilenameExtension()
NewGenerate(g) ==
  /\ rpc[g] = "new"
  /\ IF ~rfound[g].ok
     THEN /\ rret' = [rret EXCEPT ![g] = Ret("error_notfound", NoGen, FALSE, <<>>)]
          /\ rpc' = [rpc EXCEPT ![g] = "idle"]
          /\ UNCHANGED rfound
     ELSE /\ \E e \in Exts : rfound' = [rfound EXCEPT ![g].ext = e]
          /\ rpc' = [rpc EXCEPT ![g] = "verify"]
          /\ UNCHANGED rret
  /\ UNCHANGED <<drivers, driversMu, writing, rcall, regWins, torn, firstGen>>
  /\ UNCHANGED <<drvVars, lockVars, idVars, rcvVars, poolVars, runVars>>

\* (variant: verifyFilenameExtension without the leading-dot check)
ExtensionOkDotAllowed(e) == e # <<>>

\* verifyFilenameExtension: "" and a leading dot panic
ExtensionOk(e) == e # <<>> /\ Head(e) # "."

\* verifyFilenameExtension(u.Scheme, d): the panic leaves New before Initialize
NewVerify(g) ==
  /\ rpc[g] = "verify"
  /\ IF ExtensionOk(rfound[g].ext)
     THEN /\ rpc' = [rpc EXCEPT ![g] = "init"]
          /\ UNCHANGED rret
     ELSE /\ rret' = [rret EXCEPT ![g] =
                       [Ret("panic_ext", NoGen, FALSE, <<>>) EXCEPT !.ext = rfound[g].ext]]
          /\ rpc' = [rpc EXCEPT ![g] = "idle"]
  /\ UNCHANGED <<drivers, driversMu, writing, rcall, rfound, regWins, torn, firstGen>>
  /\ UNCHANGED <<drvVars, lockVars, idVars, rcvVars, poolVars, runVars>>

\* d.Initialize(url, initOptions...): its error, or the driver
NewInitialize(g) ==
  /\ rpc[g] = "init"
  /\ \E initOk \in BOOLEAN :
       rret' = [rret EXCEPT ![g] =
         IF initOk THEN [Ret("driver", rfound[g].gen, TRUE, <<>>) EXCEPT !.ext = rfound[g].ext]
         ELSE [Ret("error_init", NoGen, FALSE, <<>>) EXCEPT !.ext = rfound[g].ext]]
  /\ rpc' = [rpc EXCEPT ![g] = "idle"]
  /\ UNCHANGED <<drivers, driversMu, writing, rcall, rfound, regWins, torn, firstGen>>
  /\ UNCHANGED <<drvVars, lockVars, idVars, rcvVars, poolVars, runVars>>

RegNext ==
  \E g \in Goroutines :
    \/ RegCall(g)
    \/ NewBadUrl(g)
    \/ MuLock(g)
    \/ RegisterBody(g)
    \/ RegisterStore(g)
    \/ GetBody(g)
    \/ DriversBody(g)
    \/ MuUnlock(g)
    \/ NewGenerate(g)
    \/ NewVerify(g)
    \/ NewInitialize(g)


(* ====================================================================== *)
(*                 ONE DRIVER INSTANCE AND ITS BACKEND                     *)
(* ====================================================================== *)

Up == "up"
Down == "down"

\* what a name listed in a named-method file resolves to on the receiver:
\*   ok        exported, func() error, returns nil
\*   fails     exported, func() error, returns a non-nil error
\*   missing   no such method (reflect does not find unexported methods either)
\*   wrongsig  exported, but not of type func() error
MethodKinds == {"ok", "fails", "missing", "wrongsig"}
Contents == UNION {[1..n -> MethodKinds] : n \in 0..MaxMethods}

\* file.File: version, direction and, for a named-method file, the listed names
Files(k) == IF k = "postgres"
            THEN {[version |-> v, direction |-> d, methods |-> <<>>] : v \in Versions, d \in {Up, Down}}
            ELSE {[version |-> v, direction |-> d, methods |-> m] :
                     v \in Versions, d \in {Up, Down}, m \in Contents}
\* the named-method files of the tests: version 1, up or down, some names
NamedFiles == {[version |-> 1, direction |-> d, methods |-> m] :
                  d \in {Up, Down}, m \in UNION {[1..n -> MethodKinds] : n \in 0..MaxNames}}
NoFile == [version |-> 0, direction |-> "", methods |-> <<>>]

\* values on the pipe: the echoed file, an error (at: the step that produced
\* it, what: which error), and the event of the channel being closed
FileEv(file) == [type |-> "file", at |-> "echo", what |-> "", version |-> file.version,
                 direction |-> file.direction]
ErrEv(step, e) == [type |-> "err", at |-> step, what |-> e, version |-> 0, direction |-> ""]
CloseEv == [type |-> "close", at |-> "defer", what |-> "", version |-> 0, direction |-> ""]

NoTx == [state |-> "none", ins |-> {}, del |-> {}, add |-> {}, rem |-> {}]
NoResult == [op |-> "none", version |-> 0, err |-> "nil", connFailed |-> FALSE, queryFailed |-> FALSE]
NoSnap == [version |-> 0, before |-> 0]
\* a url: whether neturl.Parse accepts it, its scheme, and its query as the
\* sequence of its key=value pairs ("" is NoUrl)
NoUrl == [parses |-> TRUE, scheme |-> "", query |-> <<>>]
Url(scheme, query) == [parses |-> TRUE, scheme |-> scheme, query |-> query]
NoInitCall == [arg |-> NoUrl, dialed |-> NoUrl]
\* a connection check: the error of the ping, how often a reopen was tried, the
\* error returned, the handle before the check, and the url a reopen dialed
NoConn == [ping |-> "none", attempts |-> 0, err |-> "nil", before |-> "nil", dialed |-> NoUrl]

DbTypeKey == "migrations_db_type"
\* the keys of query parameters, in the order of sort.Strings
KeyOrder == <<"application_name", DbTypeKey, "sslmode">>

\* the urls Initialize is given by the callers of Spec
Urls(k) ==
  IF k = "postgres" THEN {Url("postgres", <<>>)}
  ELSE {Url("generic", q) : q \in {<<>>, <<<<DbTypeKey, "postgres">>>>, <<<<DbTypeKey, "mysql">>>>}}

\* more of them: other parameters, before and after the backend type, the
\* parameter twice, with no value, and a url that does not parse
MoreUrls(k) ==
  IF k = "postgres" THEN {Url("postgres", <<>>), Url("postgres", <<<<"sslmode", "disable">>>>)}
  ELSE Urls(k) \cup {[Url("generic", <<>>) EXCEPT !.parses = FALSE]}
       \cup {Url("generic", q) : q \in
              {<<<<DbTypeKey, "">>>>,
               <<<<"sslmode", "disable">>>>,
               <<<<"sslmode", "disable">>, <<DbTypeKey, "postgres">>>>,
               <<<<DbTypeKey, "postgres">>, <<"sslmode", "disable">>, <<"application_name", "m">>>>,
               <<<<DbTypeKey, "postgres">>, <<DbTypeKey, "mysql">>>>,
               <<<<DbTypeKey, "mysql">>, <<"sslmode", "disable">>, <<DbTypeKey, "postgres">>>>}}

DrvInit ==
  /\ kind = "none"
  /\ receiver = FALSE
  /\ db = "nil"
  /\ url = NoUrl
  /\ isLocked = FALSE
  /\ ready = FALSE
  /\ advLock = 0
  /\ tableExists = FALSE
  /\ table = {}
  /\ data = {}
  /\ tx = NoTx
  /\ leaked = {}
  /\ pc = "idle"
  /\ f = NoFile
  /\ idx = 0
  /\ pipe = <<>>
  /\ result = NoResult
  /\ pre = [table |-> {}, data |-> {}]
  /\ applied = {}
  /\ upSnap = NoSnap
  /\ roundTrip = NoSnap
  /\ conn = NoConn
  /\ initFailed = FALSE
  /\ failed = FALSE
  /\ initCall = NoInitCall
  /\ received = 0

(* ------------------------------------------------------------ helpers *)

HasErr(p) == \E i \in 1..Len(p) : p[i].type = "err"
Closes(p) == Cardinality({i \in 1..Len(p) : p[i].type = "close"})

\* pipe <- v
Send(p, v) == Append(p, v)

\* the pipe the caller makes: how many values it holds without a receiver
PipeCapacity == 0
\* the send statements executed so far have completed: a send completes when
\* the consumer has taken the value, or the buffer has room for it
SendsDone == Len(pipe) - received <= PipeCapacity
\* the caller has read the pipe to its close (or there was nothing to read)
AllReceived == received = Len(pipe)

\* SELECT version FROM t ORDER BY version DESC LIMIT 1, scanned into version
QueryRow(rows) ==
  IF rows = {} THEN [err |-> "ErrNoRows", version |-> 0]
  ELSE [err |-> "nil", version |-> CHOOSE v \in rows : \A w \in rows : w <= v]

\* (variant: Version without the sql.ErrNoRows case)
VersionResultNoRowsIsError(q) ==
  IF q.err # "nil" THEN [version |-> 0, err |-> q.err]
  ELSE [version |-> q.version, err |-> "nil"]

\* the switch of Version() on the query's error
VersionResult(q) ==
  IF q.err = "ErrNoRows" THEN [version |-> 0, err |-> "nil"]
  ELSE IF q.err # "nil" THEN [version |-> 0, err |-> q.err]
  ELSE [version |-> q.version, err |-> "nil"]

\* driver.db.Ping()
PingResult(handle, pingOk) ==
  IF handle = "closed" THEN "sql: database is closed"
  ELSE IF pingOk THEN "nil" ELSE "other"

\* (variant: a reopen after any failed ping)
EnsureConnectionReopensOnAnyError(handle, pingOk, reopenOk) ==
  LET pingErr == PingResult(handle, pingOk) IN
  IF pingErr = "nil"
  THEN [err |-> "nil", db |-> handle, reopened |-> FALSE, ping |-> pingErr, attempts |-> 0]
  ELSE IF reopenOk
  THEN [err |-> "nil", db |-> "open", reopened |-> TRUE, ping |-> pingErr, attempts |-> 1]
  ELSE [err |-> "reopen", db |-> handle, reopened |-> TRUE, ping |-> pingErr, attempts |-> 1]

\* (variant: a connection check that returns the error of the ping as it is)
EnsureConnectionNeverReopens(handle, pingOk, reopenOk) ==
  LET pingErr == PingResult(handle, pingOk) IN
  [err |-> pingErr, db |-> handle, reopened |-> FALSE, ping |-> pingErr, attempts |-> 0]

\* ensureConnectionNotClosed: ping; only "sql: database is closed" leads to one
\* reopen (sql.Open and Ping) of driver.url; the handle is replaced on success only
EnsureConnectionNotClosed(handle, pingOk, reopenOk) ==
  LET pingErr == PingResult(handle, pingOk) IN
  IF pingErr = "nil"
  THEN [err |-> "nil", db |-> handle, reopened |-> FALSE, ping |-> pingErr, attempts |-> 0]
  ELSE IF pingErr # "sql: database is closed"
  THEN [err |-> pingErr, db |-> handle, reopened |-> FALSE, ping |-> pingErr, attempts |-> 0]
  ELSE IF reopenOk
  THEN [err |-> "nil", db |-> "open", reopened |-> TRUE, ping |-> pingErr, attempts |-> 1]
  ELSE [err |-> "reopen", db |-> handle, reopened |-> TRUE, ping |-> pingErr, attempts |-> 1]

\* what a call keeps of its connection check
ConnOf(c, handle, u) ==
  [ping |-> c.ping, attempts |-> c.attempts, err |-> c.err, before |-> handle,
   dialed |-> IF c.reopened THEN u ELSE NoUrl]

(* ------------------------------------- Lock, Unlock, the bootstrap step *)

\* (variant: Lock without the isLocked check)
LockIgnoresFlag(locked, adv, execOk) ==
  IF ~execOk THEN [err |-> "lock failed", isLocked |-> locked, advLock |-> adv, exec |-> TRUE]
  ELSE [err |-> "nil", isLocked |-> TRUE, advLock |-> adv + 1, exec |-> TRUE]

\* Driver.Lock (exec: the pg_advisory_lock command was sent to the backend)
Lock(locked, adv, execOk) ==
  IF locked THEN [err |-> "ErrLocked", isLocked |-> locked, advLock |-> adv, exec |-> FALSE]
  ELSE IF ~execOk THEN [err |-> "lock failed", isLocked |-> locked, advLock |-> adv, exec |-> TRUE]
  ELSE [err |-> "nil", isLocked |-> TRUE, advLock |-> adv + 1, exec |-> TRUE]

\* (variant: Unlock without the isLocked check)
UnlockAlways(locked, adv, execOk) ==
  IF ~execOk THEN [err |-> "unlock failed", isLocked |-> locked, advLock |-> adv, exec |-> TRUE]
  ELSE [err |-> "nil", isLocked |-> FALSE,
        advLock |-> IF adv > 0 THEN adv - 1 ELSE adv, exec |-> TRUE]

\* Driver.Unlock (pg_advisory_unlock of a lock that is not held returns false,
\* which is not an error; exec: the command was sent to the backend)
Unlock(locked, adv, execOk) ==
  IF ~locked THEN [err |-> "nil", isLocked |-> locked, advLock |-> adv, exec |-> FALSE]
  ELSE IF ~execOk THEN [err |-> "unlock failed", isLocked |-> locked, advLock |-> adv, exec |-> TRUE]
  ELSE [err |-> "nil", isLocked |-> FALSE,
        advLock |-> IF adv > 0 THEN adv - 1 ELSE adv, exec |-> TRUE]

\* Driver.ensureVersionTableExists: Lock, CREATE TABLE IF NOT EXISTS, deferred Unlock
EnsureVersionTableExists(locked, adv, exists, lockOk, createOk, unlockOk) ==
  LET l == Lock(locked, adv, lockOk) IN
  IF l.err # "nil"
  THEN [err |-> l.err, isLocked |-> l.isLocked, advLock |-> l.advLock, tableExists |-> exists]
  ELSE LET u == Unlock(l.isLocked, l.advLock, unlockOk)
           e1 == IF createOk THEN "nil" ELSE "create failed"
       IN [err |-> IF u.err = "nil" THEN e1
                   ELSE IF e1 = "nil" THEN u.err ELSE "Error1, Error2",
           isLocked |-> u.isLocked, advLock |-> u.advLock,
           tableExists |-> (exists \/ createOk)]

(* ----------------------------- construction, Initialize, Close, Version *)

\* the caller is done with the pipe of the last Migrate when it makes its next call
Forget ==
  /\ f' = NoFile
  /\ pipe' = <<>>
  /\ received' = 0
  /\ tx' = NoTx
  /\ pre' = [table |-> {}, data |-> {}]
  /\ roundTrip' = NoSnap

Res(op, v, e, cf, qf) == [op |-> op, version |-> v, err |-> e, connFailed |-> cf, queryFailed |-> qf]

\* gen.Generate(): fnGenerator, then the registered init functions (which may
\* have set the generic driver's methods receiver)
Construct(k) ==
  /\ kind = "none"
  /\ kind' = k
  /\ receiver' \in (IF k = "generic" THEN BOOLEAN ELSE {FALSE})
  /\ UNCHANGED <<regVars, lockVars, idVars, rcvVars, poolVars, runVars, conn, initFailed, failed, initCall, received, db, url, isLocked, ready, advLock, tableExists, table, data, tx, leaked,
                 pc, f, idx, pipe, result, pre, applied, upSnap, roundTrip>>

\* url.Values.Get: the first value of the key, "" when there is none
QueryGet(q, key) ==
  IF \E i \in 1..Len(q) : q[i][1] = key
  THEN q[CHOOSE i \in 1..Len(q) : q[i][1] = key /\ \A j \in 1..(i - 1) : q[j][1] # key][2]
  ELSE ""
\* url.Values.Del: every value of the key goes
QueryDel(q, key) == SelectSeq(q, LAMBDA kv : kv[1] # key)
\* url.Values.Encode: sorted by key, the values of one key in their order
RECURSIVE QueryEncode(_, _)
QueryEncode(q, i) ==
  IF i > Len(KeyOrder) THEN <<>>
  ELSE SelectSeq(q, LAMBDA kv : kv[1] = KeyOrder[i]) \o QueryEncode(q, i + 1)

\* (variant: the backend type stays in the url that is opened)
NewUrlKeepsDbType(u) == [u EXCEPT !.scheme = "postgres", !.query = QueryEncode(u.query, 1)]

\* the generic driver's newUrl: migrations_db_type deleted, the query encoded
\* again, the scheme replaced by the backend's
NewUrl(u) ==
  [u EXCEPT !.scheme = "postgres", !.query = QueryEncode(QueryDel(u.query, DbTypeKey), 1)]

\* the generic driver's checks before it opens anything: the receiver, then the
\* migrations_db_type query parameter ("" when absent)
GenericConfigError(hasReceiver, dbType) ==
  IF ~hasReceiver THEN "UnregisteredMethodsReceiver"
  ELSE IF dbType = "" THEN "parameter not provided"
  ELSE IF dbType # "postgres" THEN "could not deduce schema"
  ELSE "nil"

\* the generic driver's Initialize up to sql.Open: the receiver, the parse of
\* the url, the backend type
GenericInitError(hasReceiver, u) ==
  IF hasReceiver /\ ~u.parses THEN "failed to parse url"
  ELSE GenericConfigError(hasReceiver, QueryGet(u.query, DbTypeKey))

InitializeOf(urls) ==
  /\ kind # "none" /\ pc = "idle" /\ ~ready /\ AllReceived
  /\ \E u \in urls, openOk, lockOk, createOk, unlockOk \in BOOLEAN :
       LET cfg == IF kind = "generic" THEN GenericInitError(receiver, u) ELSE "nil"
           newUrl == IF kind = "generic" THEN NewUrl(u) ELSE u
           ev == EnsureVersionTableExists(isLocked, advLock, tableExists,
                                          lockOk, createOk, unlockOk)
       IN IF cfg # "nil"
          THEN /\ result' = Res("Initialize", 0, cfg, FALSE, FALSE)
               /\ initFailed' = (db = "nil")
               /\ initCall' = [arg |-> u, dialed |-> NoUrl]
               /\ UNCHANGED <<regVars, lockVars, idVars, rcvVars, poolVars, runVars, db, url, isLocked, ready, advLock, tableExists>>
          ELSE IF ~openOk
          THEN /\ result' = Res("Initialize", 0, "open or ping failed", TRUE, FALSE)
               /\ initFailed' = (db = "nil")
               /\ initCall' = [arg |-> u, dialed |-> newUrl]
               /\ UNCHANGED <<regVars, lockVars, idVars, rcvVars, poolVars, runVars, db, url, isLocked, ready, advLock, tableExists>>
          ELSE /\ db' = "open"
               /\ initFailed' = FALSE
               /\ initCall' = [arg |-> u, dialed |-> newUrl]
               /\ url' = newUrl
               /\ isLocked' = ev.isLocked
               /\ advLock' = ev.advLock
               /\ tableExists' = ev.tableExists
               /\ ready' = (ev.err = "nil")
               /\ result' = Res("Initialize", 0, ev.err, FALSE, FALSE)
  /\ Forget
  /\ conn' = NoConn
  /\ UNCHANGED <<regVars, lockVars, idVars, rcvVars, poolVars, runVars, kind, receiver, table, data, leaked, pc, idx, applied, upSnap,
                 failed>>

Initialize == InitializeOf(Urls(kind))

\* the same, given any of the urls of MoreUrls
InitializeAny == InitializeOf(MoreUrls(kind))

\* "Initialize is the first function to be called": it has been called
InitializeCalled == initFailed \/ db # "nil"

\* Driver.Close: db.Close() on a nil handle is a nil dereference
Close ==
  /\ kind # "none" /\ pc = "idle" /\ AllReceived
  /\ InitializeCalled
  /\ IF db = "nil"
     THEN /\ pc' = "crashed"
          /\ result' = Res("Close", 0, "panic", FALSE, FALSE)
          /\ UNCHANGED db
     ELSE /\ db' = "closed"
          /\ \E e \in {"nil", "close failed"} : result' = Res("Close", 0, e, FALSE, FALSE)
          /\ UNCHANGED pc
  /\ Forget
  /\ conn' = NoConn
  /\ UNCHANGED <<regVars, lockVars, idVars, rcvVars, poolVars, runVars, initFailed, failed, initCall, kind, receiver, url, isLocked, ready, advLock, tableExists, table, data,
                 leaked, idx, applied, upSnap>>

\* Driver.Version
Version ==
  /\ ready /\ pc = "idle" /\ AllReceived
  /\ \E pingOk, reopenOk, queryOk \in BOOLEAN :
       LET c == EnsureConnectionNotClosed(db, pingOk, reopenOk)
           q == IF queryOk /\ tableExists THEN QueryRow(table) ELSE [err |-> "query failed", version |-> 0]
           r == VersionResult(q)
       IN /\ db' = c.db
          /\ conn' = ConnOf(c, db, url)
          /\ result' = IF c.err # "nil"
                       THEN Res("Version", 0, "failed to ensure db connection is open", TRUE, FALSE)
                       ELSE Res("Version", r.version, r.err, FALSE, ~(queryOk /\ tableExists))
  /\ Forget
  /\ UNCHANGED <<regVars, lockVars, idVars, rcvVars, poolVars, runVars, initFailed, failed, initCall, kind, receiver, url, isLocked, ready, advLock, tableExists, table, data,
                 leaked, pc, idx, applied, upSnap>>

(* ------------------------------------------------------------- Migrate *)
(* Driver.Migrate runs as its own goroutine while the caller reads the    *)
(* pipe; one action per statement.  pc:                                    *)
(*   echo      pipe <- f                                                   *)
(*   migrator  (generic) driver.migrator.Migrate: read and validate names  *)
(*   invoke    (generic) the migrator invokes the names in file order      *)
(*   ensure    ensureConnectionNotClosed                                   *)
(*   begin     (postgres) driver.db.Begin                                  *)
(*   mutate    INSERT / DELETE of the version row                          *)
(*   read      (postgres) f.ReadContent                                    *)
(*   exec      (postgres) tx.Exec(content)                                 *)
(*   rollback  (postgres) tx.Rollback                                      *)
(*   commit    (postgres) tx.Commit                                        *)
(*   ret       return: the deferred close(pipe) runs                       *)
(*   panic     a panic unwinds: the deferred close(pipe) runs              *)
(*   crashed   the process died of the panic                               *)
(***************************************************************************)

MigVars == <<kind, receiver, url, isLocked, ready, advLock, tableExists>>

\* the caller makes a fresh pipe and starts go d.Migrate(file, pipe)
StartMigrateOf(files) ==
  /\ ready /\ pc = "idle" /\ AllReceived
  /\ \E file \in files : f' = file
  /\ pc' = "echo"
  /\ pipe' = <<>>
  /\ received' = 0
  /\ tx' = NoTx
  /\ idx' = 0
  /\ pre' = [table |-> table, data |-> data]
  /\ result' = NoResult
  /\ roundTrip' = NoSnap
  /\ conn' = NoConn
  /\ UNCHANGED <<regVars, lockVars, idVars, rcvVars, poolVars, runVars, initFailed, failed, initCall, MigVars, db, table, data, leaked, applied, upSnap>>

StartMigrate == StartMigrateOf(Files(kind))

\* the same with a named-method file, on the generic driver
StartMigrateNamed == kind = "generic" /\ StartMigrateOf(NamedFiles)

\* (variant: Migrate without the echo)
EchoNothing(p, file) == p

\* pipe <- f, the first statement after the defer
EchoFile(p, file) == Send(p, FileEv(file))

\* (variant: a postgres Migrate that begins its transaction unchecked)
AfterEchoNoCheck(k) == IF k = "postgres" THEN "begin" ELSE "migrator"

\* what follows the echo: postgres checks its connection, the named-method
\* driver hands the file to its migrator
AfterEcho(k) == IF k = "postgres" THEN "ensure" ELSE "migrator"

Echo ==
  /\ pc = "echo"
  /\ pipe' = EchoFile(pipe, f)
  /\ pc' = AfterEcho(kind)
  /\ UNCHANGED <<regVars, lockVars, idVars, rcvVars, poolVars, runVars, conn, initFailed, failed, initCall, received, MigVars, db, table, data, tx, leaked, f, idx, result, pre, applied,
                 upSnap, roundTrip>>

\* where Migrate goes after a successful connection check
AfterEnsure(k) == IF k = "postgres" THEN "begin" ELSE "mutate"

Ensure ==
  /\ pc = "ensure" /\ SendsDone
  /\ \E pingOk, reopenOk \in BOOLEAN :
       LET c == EnsureConnectionNotClosed(db, pingOk, reopenOk) IN
       /\ db' = c.db
       /\ conn' = ConnOf(c, db, url)
       /\ IF c.err = "nil"
          THEN pc' = AfterEnsure(kind) /\ UNCHANGED pipe
          ELSE /\ pipe' = Send(pipe, ErrEv("ensure", c.err))
               /\ pc' = "ret"
  /\ UNCHANGED <<regVars, lockVars, idVars, rcvVars, poolVars, runVars, initFailed, failed, initCall, received, MigVars, table, data, tx, leaked, f, idx, result, pre, applied,
                 upSnap, roundTrip>>

\* tx, err := driver.db.Begin()
Begin ==
  /\ pc = "begin" /\ SendsDone
  /\ \/ /\ tx' = [NoTx EXCEPT !.state = "open"]
        /\ pc' = "mutate"
        /\ UNCHANGED pipe
     \/ /\ pipe' = Send(pipe, ErrEv("begin", "begin failed"))
        /\ pc' = "ret"
        /\ UNCHANGED tx
  /\ UNCHANGED <<regVars, lockVars, idVars, rcvVars, poolVars, runVars, conn, initFailed, failed, initCall, received, MigVars, db, table, data, leaked, f, idx, result, pre, applied,
                 upSnap, roundTrip>>

\* (variant: a version column without the primary key)
InsertFailsNoPrimaryKey(exists, rows, v) == ~exists

\* INSERT INTO t (version) VALUES (v): the primary key rejects a version that is
\* already a row; the statement waits while an unfinished transaction holds v
InsertBlocked(locks, v) == \E l \in locks : l[1] = v
InsertFails(exists, rows, v) == ~exists \/ v \in rows
\* DELETE FROM t WHERE version = v: waits while an unfinished transaction
\* holds the row for deletion; deletes nothing when there is no such row
DeleteBlocked(locks, v) == <<v, "del">> \in locks
DeleteFails(exists) == ~exists

\* the rows a statement adds to, or removes from, the version table
InsertedRows(file) == {file.version}
\* (variant: a DELETE whose WHERE clause matches no row)
DeletedRowsNone(rows, file) == {}


DeletedRows(rows, file) == {v \in rows : v = file.version}

\* the version-table statement of a file, by direction
MutateBlocked(locks, file) ==
  IF file.direction = Up THEN InsertBlocked(locks, file.version)
  ELSE DeleteBlocked(locks, file.version)
MutateFails(exists, rows, file) ==
  IF file.direction = Up THEN InsertFails(exists, rows, file.version)
  ELSE DeleteFails(exists)

\* history: the versions applied, after a committed Up or Down of version v
Applied(set, file) ==
  IF file.direction = Up THEN set \cup {file.version} ELSE set \ {file.version}

\* postgres: tx.Exec of the INSERT or DELETE; on an error, pipe <- err and Rollback
MutateTx ==
  /\ pc = "mutate" /\ kind = "postgres" /\ SendsDone
  /\ ~MutateBlocked(leaked, f)
  /\ \E execOk \in BOOLEAN :
       IF execOk /\ ~MutateFails(tableExists, table, f)
       THEN /\ tx' = IF f.direction = Up
                     THEN [tx EXCEPT !.ins = InsertedRows(f)]
                     ELSE [tx EXCEPT !.del = DeletedRows(table, f)]
            /\ pc' = "read"
            /\ UNCHANGED pipe
       ELSE /\ pipe' = Send(pipe, ErrEv("mutate", "exec failed"))
            /\ pc' = "rollback"
            /\ UNCHANGED tx
  /\ UNCHANGED <<regVars, lockVars, idVars, rcvVars, poolVars, runVars, conn, initFailed, failed, initCall, received, MigVars, db, table, data, leaked, f, idx, result, pre, applied,
                 upSnap, roundTrip>>

\* (variant: the error of ReadContent is reported and Migrate goes on)
AfterReadErrorGoesOn == "exec"

\* f.ReadContent(); on an error, pipe <- err and return
AfterReadError == "ret"

ReadContent ==
  /\ pc = "read" /\ SendsDone
  /\ \/ pc' = "exec" /\ UNCHANGED pipe
     \/ /\ pipe' = Send(pipe, ErrEv("read", "read failed"))
        /\ pc' = AfterReadError
  /\ UNCHANGED <<regVars, lockVars, idVars, rcvVars, poolVars, runVars, conn, initFailed, failed, initCall, received, MigVars, db, table, data, tx, leaked, f, idx, result, pre, applied,
                 upSnap, roundTrip>>

\* the effects of a file's content: unit i of an Up file makes <<v, i>>, unit i
\* of the Down file undoes it; an SQL file is one unit
ContentAdds(file, units) == IF file.direction = Up THEN {<<file.version, i>> : i \in units} ELSE {}
ContentRemoves(file, units) == IF file.direction = Down THEN {<<file.version, i>> : i \in units} ELSE {}

\* tx.Exec(string(f.Content)): an error is asserted to be a *pq.Error (a panic
\* when it is not), reported with or without its position, and the transaction
\* is rolled back
ExecOutcomes == {"ok", "pq error with position", "pq error", "other error"}

ExecContent ==
  /\ pc = "exec" /\ SendsDone
  /\ \E o \in ExecOutcomes :
       IF o = "ok"
       THEN /\ tx' = [tx EXCEPT !.add = ContentAdds(f, {1}), !.rem = ContentRemoves(f, {1})]
            /\ pc' = "commit"
            /\ UNCHANGED pipe
       ELSE IF o = "other error"
       THEN /\ pc' = "panic"
            /\ UNCHANGED <<tx, pipe>>
       ELSE /\ pipe' = Send(pipe, ErrEv("exec", o))
            /\ pc' = "rollback"
            /\ UNCHANGED tx
  /\ UNCHANGED <<regVars, lockVars, idVars, rcvVars, poolVars, runVars, conn, initFailed, failed, initCall, received, MigVars, db, table, data, leaked, f, idx, result, pre, applied,
                 upSnap, roundTrip>>

\* tx.Rollback(); its own error goes to the pipe too
Rollback ==
  /\ pc = "rollback" /\ SendsDone
  /\ \/ tx' = [tx EXCEPT !.state = "rolled back"] /\ UNCHANGED pipe
     \/ /\ tx' = [tx EXCEPT !.state = "rollback failed"]
        /\ pipe' = Send(pipe, ErrEv("rollback", "rollback failed"))
  /\ pc' = "ret"
  /\ UNCHANGED <<regVars, lockVars, idVars, rcvVars, poolVars, runVars, conn, initFailed, failed, initCall, received, MigVars, db, table, data, leaked, f, idx, result, pre, applied,
                 upSnap, roundTrip>>

\* (variant: a commit that persists no row change)
CommitRowsNothing(rows, t) == rows

\* (variant: a version table of one row that an Up overwrites)
CommitRowsInPlace(rows, t) == IF t.ins # {} THEN t.ins ELSE rows \ t.del

\* what a commit makes of the committed rows and data
CommitRows(rows, t) == (rows \ t.del) \cup t.ins
CommitData(d, t) == (d \ t.rem) \cup t.add

\* tx.Commit()
Commit ==
  /\ pc = "commit" /\ SendsDone
  /\ \/ /\ tx' = [tx EXCEPT !.state = "committed"]
        /\ table' = CommitRows(table, tx)
        /\ data' = CommitData(data, tx)
        /\ applied' = Applied(applied, f)
        /\ UNCHANGED pipe
     \/ /\ tx' = [tx EXCEPT !.state = "commit failed"]
        /\ pipe' = Send(pipe, ErrEv("commit", "commit failed"))
        /\ UNCHANGED <<table, data, applied>>
  /\ pc' = "ret"
  /\ UNCHANGED <<regVars, lockVars, idVars, rcvVars, poolVars, runVars, conn, initFailed, failed, initCall, received, MigVars, db, leaked, f, idx, result, pre, upSnap, roundTrip>>

(* ------------------------------------------ generic (named-method) driver *)

\* (variant: a Validate that finds every name valid)
ValidateAcceptsAll(m) == "nil"

\* (variant: a Validate without the signature check)
ValidateMissingOnly(m) == IF m = "missing" THEN "MissingMethod" ELSE "nil"

\* Driver.Validate: MethodByName on the receiver's type, then the type check
Validate(m) ==
  IF m = "missing" THEN "MissingMethod"
  ELSE IF m = "wrongsig" THEN "WrongMethodSignature"
  ELSE "nil"

\* Driver.Invoke: MethodByName on the receiver's value, Call, the returned error
Invoke(m) ==
  IF m = "missing" THEN "MissingMethod"
  ELSE IF m = "wrongsig" THEN "WrongMethodSignature"
  ELSE IF m = "fails" THEN "MethodInvocationFailed"
  ELSE "nil"

\* the first listed name that does not validate (0: all validate)
FirstInvalid(ms) ==
  IF \E i \in 1..Len(ms) : Validate(ms[i]) # "nil"
  THEN CHOOSE i \in 1..Len(ms) : /\ Validate(ms[i]) # "nil"
                                 /\ \A j \in 1..(i - 1) : Validate(ms[j]) = "nil"
  ELSE 0

\* (variant: a Migrate that goes on to the version row whatever the migrator
\* returned)
AfterMigratorIgnoresError(err) == "ensure"

\* err := driver.migrator.Migrate(f, pipe); if err != nil { return }
AfterMigrator(err) == IF err # "nil" THEN "ret" ELSE "ensure"

\* gomethods.Migrator.Migrate, first part: the names are read from the content
\* and every one is validated before any is invoked; an error goes to the pipe
\* and is returned, and Driver.Migrate returns on it
MigratorValidate ==
  /\ pc = "migrator" /\ SendsDone
  /\ \/ /\ pipe' = Send(pipe, ErrEv("read", "read failed"))
        /\ pc' = AfterMigrator("read failed")
        /\ UNCHANGED idx
     \/ LET bad == FirstInvalid(f.methods) IN
        IF bad # 0
        THEN /\ pipe' = Send(pipe, ErrEv("validate", Validate(f.methods[bad])))
             /\ pc' = AfterMigrator(Validate(f.methods[bad]))
             /\ idx' = bad
        ELSE /\ pc' = "invoke"
             /\ idx' = 1
             /\ UNCHANGED pipe
  /\ UNCHANGED <<regVars, lockVars, idVars, rcvVars, poolVars, runVars, conn, initFailed, failed, initCall, received, MigVars, db, table, data, tx, leaked, f, result, pre, applied,
                 upSnap, roundTrip>>

\* gomethods.Migrator.Migrate, second part: the names are invoked in file order;
\* the first error goes to the pipe and ends the file, what ran before stays
MigratorInvoke ==
  /\ pc = "invoke" /\ SendsDone
  /\ IF idx > Len(f.methods)
     THEN /\ pc' = AfterMigrator("nil")
          /\ UNCHANGED <<pipe, data, idx>>
     ELSE LET e == Invoke(f.methods[idx]) IN
          IF e = "nil"
          THEN /\ data' = (data \ ContentRemoves(f, {idx})) \cup ContentAdds(f, {idx})
               /\ idx' = idx + 1
               /\ UNCHANGED <<pipe, pc>>
          ELSE /\ pipe' = Send(pipe, ErrEv("invoke", e))
               /\ pc' = AfterMigrator(e)
               /\ UNCHANGED <<data, idx>>
  /\ UNCHANGED <<regVars, lockVars, idVars, rcvVars, poolVars, runVars, conn, initFailed, failed, initCall, received, MigVars, db, table, tx, leaked, f, result, pre, applied, upSnap, roundTrip>>

\* generic: driver.db.Exec of the INSERT or DELETE, outside any transaction
MutateDirect ==
  /\ pc = "mutate" /\ kind = "generic" /\ SendsDone
  /\ ~MutateBlocked(leaked, f)
  /\ \E execOk \in BOOLEAN :
       IF execOk /\ ~MutateFails(tableExists, table, f)
       THEN /\ table' = IF f.direction = Up THEN table \cup InsertedRows(f)
                        ELSE table \ DeletedRows(table, f)
            /\ applied' = Applied(applied, f)
            /\ UNCHANGED pipe
       ELSE /\ pipe' = Send(pipe, ErrEv("mutate", "exec failed"))
            /\ UNCHANGED <<table, applied>>
  /\ pc' = "ret"
  /\ UNCHANGED <<regVars, lockVars, idVars, rcvVars, poolVars, runVars, conn, initFailed, failed, initCall, received, MigVars, db, data, tx, leaked, f, idx, result, pre, upSnap, roundTrip>>

(* -------------------------------------------------- the end of a Migrate *)

\* (variant: the pipe is closed on the success path only)
CloseUnlessError(p) == IF HasErr(p) THEN p ELSE Append(p, CloseEv)

\* defer close(pipe)
DeferredClose(p) == Append(p, CloseEv)

\* Version() as a caller with a working connection gets it
CurrentVersion(rows) == VersionResult(QueryRow(rows)).version

\* the row locks a transaction that was neither committed nor rolled back keeps
LeakedLocks(t, rows) ==
  IF t.state = "open"
  THEN {<<v, "ins">> : v \in t.ins} \cup {<<v, "del">> : v \in t.del}
  ELSE {}

\* Migrate returns; the caller, reading the pipe, sees it closed
Return ==
  /\ pc = "ret" /\ SendsDone
  /\ pipe' = DeferredClose(pipe)
  /\ pc' = "idle"
  /\ leaked' = leaked \cup LeakedLocks(tx, table)
  /\ f' = [f EXCEPT !.methods = <<>>]
  /\ idx' = 0
  /\ upSnap' = IF ~HasErr(pipe) /\ f.direction = Up
               THEN [version |-> f.version, before |-> CurrentVersion(pre.table)]
               ELSE NoSnap
  /\ roundTrip' = IF ~HasErr(pipe) /\ f.direction = Down /\ upSnap.version = f.version
                  THEN upSnap ELSE NoSnap
  /\ failed' = (failed \/ HasErr(pipe))
  /\ UNCHANGED <<regVars, lockVars, idVars, rcvVars, poolVars, runVars, conn, initFailed, initCall, received, MigVars, db, table, data, tx, result, pre, applied>>

\* (variant: a consumer that stops reading at the first error it sees)
ConsumerStopsAtError(p, n) == \A i \in 1..n : p[i].type # "err"

\* the consumer reads on until it has seen the pipe closed
ConsumerReads(p, n) == TRUE

\* the caller's loop over the pipe takes the next value, or sees the close
Receive ==
  /\ pc # "crashed"
  /\ received < Len(pipe)
  /\ ConsumerReads(pipe, received)
  /\ received' = received + 1
  /\ UNCHANGED <<regVars, lockVars, idVars, rcvVars, poolVars, runVars, conn, initFailed, failed, initCall, MigVars, db, table, data,
                 tx, leaked, pc, f, idx, pipe, result, pre, applied, upSnap, roundTrip>>

\* the failed type assertion err.(*pq.Error) panics: the deferred close runs,
\* nothing recovers, the process ends (and with it its open transaction)
Panic ==
  /\ pc = "panic" /\ SendsDone
  /\ pipe' = DeferredClose(pipe)
  /\ pc' = "crashed"
  /\ UNCHANGED <<regVars, lockVars, idVars, rcvVars, poolVars, runVars, conn, initFailed, failed, initCall, received, MigVars, db, table, data, tx, leaked, f, idx, result, pre, applied,
                 upSnap, roundTrip>>

DrvNext ==
  \/ \E k \in {"postgres", "generic"} : Construct(k)
  \/ Initialize
  \/ Close
  \/ Version
  \/ StartMigrate
  \/ Echo
  \/ Ensure
  \/ Begin
  \/ MutateTx
  \/ ReadContent
  \/ ExecContent
  \/ Rollback
  \/ Commit
  \/ MigratorValidate
  \/ MigratorInvoke
  \/ MutateDirect
  \/ Return
  \/ Panic
  \/ Receive

(* ====================================================================== *)
(*        SEVERAL PROCESSES: THE ADVISORY LOCK AND THE BOOTSTRAP STEP      *)
(* ====================================================================== *)
(* Each process has its own Driver and its own session with the backend.   *)
(* procPc:                                                                 *)
(*   idle     no call running                                              *)
(*   lock     in Lock(), at the isLocked check                             *)
(*   wait     pg_advisory_lock sent, waiting for the backend               *)
(*   create   CREATE TABLE IF NOT EXISTS is executing                      *)
(*   unlock   in Unlock(), at the isLocked check                           *)
(*   crashed  nil dereference of Driver.db                                 *)
(***************************************************************************)

Procs == 1..NumProcs

NoProcRes == [op |-> "none", err |-> "nil", exec |-> FALSE]
ProcRes(op, e, x) == [op |-> op, err |-> e, exec |-> x]

LockInit ==
  /\ procDb = [p \in Procs |-> "nil"]
  /\ procIsLocked = [p \in Procs |-> FALSE]
  /\ procPc = [p \in Procs |-> "idle"]
  /\ procOp = [p \in Procs |-> "none"]
  /\ procRes = [p \in Procs |-> NoProcRes]
  /\ sessionLocks = [p \in Procs |-> 0]
  /\ tableCreated = FALSE

\* Initialize up to ensureVersionTableExists: sql.Open and Ping, then the handle
\* is stored and the bootstrap step starts with Lock()
InitializeOpen(p) ==
  /\ procPc[p] = "idle" /\ procDb[p] = "nil"
  /\ procOp' = [procOp EXCEPT ![p] = "Initialize"]
  /\ \/ /\ procDb' = [procDb EXCEPT ![p] = "open"]
        /\ procPc' = [procPc EXCEPT ![p] = "lock"]
        /\ procRes' = [procRes EXCEPT ![p] = NoProcRes]
     \/ /\ procRes' = [procRes EXCEPT ![p] = ProcRes("Initialize", "open or ping failed", FALSE)]
        /\ UNCHANGED <<procDb, procPc>>
  /\ UNCHANGED <<regVars, drvVars, idVars, rcvVars, poolVars, runVars, procIsLocked, sessionLocks, tableCreated>>

\* a caller calls Lock() or Unlock() on its driver
LockCall(p) ==
  /\ procPc[p] = "idle"
  /\ \E op \in {"Lock", "Unlock"} :
       /\ procOp' = [procOp EXCEPT ![p] = op]
       /\ procPc' = [procPc EXCEPT ![p] = IF op = "Lock" THEN "lock" ELSE "unlock"]
  /\ procRes' = [procRes EXCEPT ![p] = NoProcRes]
  /\ UNCHANGED <<regVars, drvVars, idVars, rcvVars, poolVars, runVars, procDb, procIsLocked, sessionLocks, tableCreated>>

\* (variant: ensureVersionTableExists going on after a failed Lock)
AfterLockAlwaysCreates(op, err) == IF op = "Initialize" THEN "create" ELSE "idle"

\* where a call goes when Lock() has returned: ensureVersionTableExists returns
\* Lock's error, and goes on to CREATE TABLE only without one
AfterLock(op, err) == IF op = "Initialize" /\ err = "nil" THEN "create" ELSE "idle"

\* Lock(): the isLocked check; then p.db.ExecContext(pg_advisory_lock)
LockEnter(p) ==
  /\ procPc[p] = "lock"
  /\ LET r == Lock(procIsLocked[p], sessionLocks[p], TRUE) IN
     IF ~r.exec
     THEN /\ procRes' = [procRes EXCEPT ![p] = ProcRes(procOp[p], r.err, r.exec)]
          /\ procPc' = [procPc EXCEPT ![p] = AfterLock(procOp[p], r.err)]
          /\ procIsLocked' = [procIsLocked EXCEPT ![p] = r.isLocked]
     ELSE /\ procPc' = [procPc EXCEPT ![p] =
                          IF procDb[p] = "nil" THEN "crashed" ELSE "wait"]
          /\ UNCHANGED <<procRes, procIsLocked>>
  /\ UNCHANGED <<regVars, drvVars, idVars, rcvVars, poolVars, runVars, procDb, procOp, sessionLocks, tableCreated>>

\* (variant: a lock command that does not wait, as pg_try_advisory_lock whose
\* result is not looked at)
AdvisoryLockNeverWaits(locks, p) == TRUE

\* pg_advisory_lock waits until no other session holds the lock
AdvisoryLockFree(locks, p) == \A q \in DOMAIN locks : q # p => locks[q] = 0

\* the backend grants the lock: ExecContext returns nil, isLocked = true
LockGranted(p) ==
  /\ procPc[p] = "wait"
  /\ AdvisoryLockFree(sessionLocks, p)
  /\ LET r == Lock(procIsLocked[p], sessionLocks[p], TRUE) IN
       /\ sessionLocks' = [sessionLocks EXCEPT ![p] = r.advLock]
       /\ procIsLocked' = [procIsLocked EXCEPT ![p] = r.isLocked]
       /\ procRes' = [procRes EXCEPT ![p] = ProcRes(procOp[p], r.err, r.exec)]
       /\ procPc' = [procPc EXCEPT ![p] = AfterLock(procOp[p], r.err)]
  /\ UNCHANGED <<regVars, drvVars, idVars, rcvVars, poolVars, runVars, procDb, procOp, tableCreated>>

\* the lock command fails (while waiting or not): "try lock failed"
LockFailed(p) ==
  /\ procPc[p] = "wait"
  /\ LET r == Lock(procIsLocked[p], sessionLocks[p], FALSE) IN
       /\ sessionLocks' = [sessionLocks EXCEPT ![p] = r.advLock]
       /\ procIsLocked' = [procIsLocked EXCEPT ![p] = r.isLocked]
       /\ procRes' = [procRes EXCEPT ![p] = ProcRes(procOp[p], r.err, r.exec)]
       /\ procPc' = [procPc EXCEPT ![p] = AfterLock(procOp[p], r.err)]
  /\ UNCHANGED <<regVars, drvVars, idVars, rcvVars, poolVars, runVars, procDb, procOp, tableCreated>>

\* CREATE TABLE IF NOT EXISTS ends; the deferred Unlock() comes next
CreateTable(p) ==
  /\ procPc[p] = "create"
  /\ \/ /\ tableCreated' = TRUE
        /\ UNCHANGED procRes
     \/ /\ procRes' = [procRes EXCEPT ![p] = ProcRes("Initialize", "create failed", TRUE)]
        /\ UNCHANGED tableCreated
  /\ procPc' = [procPc EXCEPT ![p] = "unlock"]
  /\ UNCHANGED <<regVars, drvVars, idVars, rcvVars, poolVars, runVars, procDb, procIsLocked, procOp, sessionLocks>>

\* (variant: a deferred Unlock whose error is dropped)
DeferredErrorKeepsFirst(err, e) == err

\* the named result of ensureVersionTableExists after its deferred Unlock
DeferredError(err, e) ==
  IF e = "nil" THEN err ELSE IF err = "nil" THEN e ELSE "Error1, Error2"

\* Unlock(), called by a caller or deferred by ensureVersionTableExists
UnlockBody(p) ==
  /\ procPc[p] = "unlock"
  /\ \E execOk \in BOOLEAN :
       LET r == Unlock(procIsLocked[p], sessionLocks[p], execOk) IN
       IF r.exec /\ procDb[p] = "nil"
       THEN /\ procPc' = [procPc EXCEPT ![p] = "crashed"]
            /\ UNCHANGED <<procRes, procIsLocked, sessionLocks>>
       ELSE /\ sessionLocks' = [sessionLocks EXCEPT ![p] = r.advLock]
            /\ procIsLocked' = [procIsLocked EXCEPT ![p] = r.isLocked]
            /\ procRes' = [procRes EXCEPT ![p] =
                  IF procOp[p] = "Initialize"
                  THEN ProcRes("Initialize", DeferredError(procRes[p].err, r.err), TRUE)
                  ELSE ProcRes("Unlock", r.err, r.exec)]
            /\ procPc' = [procPc EXCEPT ![p] = "idle"]
  /\ UNCHANGED <<regVars, drvVars, idVars, rcvVars, poolVars, runVars, procDb, procOp, tableCreated>>

LockNext ==
  \E p \in Procs :
    \/ InitializeOpen(p)
    \/ LockCall(p)
    \/ LockEnter(p)
    \/ LockGranted(p)
    \/ LockFailed(p)
    \/ CreateTable(p)
    \/ UnlockBody(p)

(* ====================================================================== *)
(*                        GenerateAdvisoryLockId                           *)
(* ====================================================================== *)
(* Strings are sequences of bytes; a number is the sequence of its bytes,   *)
(* the least significant first (a uint32 has four).                        *)
(***************************************************************************)

\* const advisoryLockIDSalt uint = 1486364155
advisoryLockIDSalt == 1486364155

Xraydb == <<120, 114, 97, 121, 100, 98>>
MigratePostgres == <<109, 105, 103, 114, 97, 116, 101, 45, 112, 111, 115, 116, 103, 114, 101, 115>>
MigrateGeneric == <<109, 105, 103, 114, 97, 116, 101, 45, 103, 101, 110, 101, 114, 105, 99>>

\* the arguments of a call: the two the drivers make, and others
DatabaseNames == {Xraydb, <<>>, <<97>>}
AdditionalNames == {<<>>, <<MigratePostgres>>, <<MigrateGeneric>>, <<<<98>>, <<99>>>>}

\* strings.Join(names, sep)
RECURSIVE Join(_, _)
Join(names, sep) ==
  IF Len(names) = 0 THEN <<>>
  ELSE IF Len(names) = 1 THEN names[1]
  ELSE names[1] \o sep \o Join(Tail(names), sep)

\* the bytes that are summed: the additional names first, the database name last
JoinedName(databaseName, additionalNames) ==
  IF Len(additionalNames) > 0
  THEN Join(Append(additionalNames, databaseName), <<0>>)
  ELSE databaseName

\* the exclusive or of two bytes, bit by bit, and of two uint32
RECURSIVE XorBits(_, _, _)
XorBits(x, y, n) ==
  IF n = 0 THEN 0 ELSE ((x + y) % 2) + 2 * XorBits(x \div 2, y \div 2, n - 1)
Xor32(a, b) == <<XorBits(a[1], b[1], 8), XorBits(a[2], b[2], 8),
                 XorBits(a[3], b[3], 8), XorBits(a[4], b[4], 8)>>
\* crc >> 1
Shr1(a) == <<(a[1] \div 2) + 128 * (a[2] % 2), (a[2] \div 2) + 128 * (a[3] % 2),
             (a[3] \div 2) + 128 * (a[4] % 2), a[4] \div 2>>

\* crc32.IEEE, the reversed polynomial 0xedb88320
IEEE == <<32, 131, 184, 237>>
AllOnes == <<255, 255, 255, 255>>

\* crc32.ChecksumIEEE, one bit at a time
RECURSIVE CrcBits(_, _)
CrcBits(crc, n) ==
  IF n = 0 THEN crc
  ELSE CrcBits(IF crc[1] % 2 = 1 THEN Xor32(Shr1(crc), IEEE) ELSE Shr1(crc), n - 1)

RECURSIVE CrcUpdate(_, _)
CrcUpdate(crc, bytes) ==
  IF Len(bytes) = 0 \/ Len(crc) # 4 THEN crc
  ELSE CrcUpdate(CrcBits(Xor32(crc, <<Head(bytes), 0, 0, 0>>), 8), Tail(bytes))

ChecksumIEEE(bytes) == Xor32(CrcUpdate(AllOnes, bytes), AllOnes)

\* uint32(advisoryLockIDSalt)
SaltBytes == <<advisoryLockIDSalt % 256, (advisoryLockIDSalt \div 256) % 256,
               (advisoryLockIDSalt \div 65536) % 256, (advisoryLockIDSalt \div 16777216) % 256>>

\* the product of two byte strings, byte k of n, with the carry into it
RECURSIVE MulBytes(_, _, _, _, _)
MulBytes(a, b, k, n, carry) ==
  IF k > n THEN <<>>
  ELSE LET IdxPairs == {i \in 1..Len(a) : k + 1 - i \in 1..Len(b)}
           RECURSIVE Sum(_)
           Sum(S) == IF S = {} THEN 0
                     ELSE LET i == CHOOSE x \in S : TRUE
                          IN a[i] * b[k + 1 - i] + Sum(S \ {i})
           t == Sum(IdxPairs) + carry
       IN <<t % 256>> \o MulBytes(a, b, k + 1, n, t \div 256)

\* (variant: the product kept in 64 bits)
Mul64(a, b) == MulBytes(a, b, 1, 8, 0)

\* sum * uint32(salt): uint32 arithmetic, the product modulo 2^32
Mul32(a, b) == MulBytes(a, b, 1, 4, 0)

\* a number in bytes divided by ten, from byte k down, rem carried in from
\* above: the quotient's bytes and the remainder
RECURSIVE DivTenFrom(_, _, _)
DivTenFrom(bytes, k, rem) ==
  IF k = 0 THEN [q |-> <<>>, r |-> rem]
  ELSE LET t == rem * 256 + bytes[k]
           rest == DivTenFrom(bytes, k - 1, t % 10)
       IN [q |-> Append(rest.q, t \div 10), r |-> rest.r]

IsZero(bytes) == \A k \in 1..Len(bytes) : bytes[k] = 0

\* fmt.Sprint of an unsigned number: its decimal digits, the first first
RECURSIVE Sprint(_)
Sprint(bytes) ==
  LET d == DivTenFrom(bytes, Len(bytes), 0)
  IN IF IsZero(d.q) THEN <<d.r>> ELSE Append(Sprint(d.q), d.r)

\* GenerateAdvisoryLockId: the returned string and error
GenerateAdvisoryLockId(databaseName, additionalNames) ==
  [token |-> Sprint(Mul32(ChecksumIEEE(JoinedName(databaseName, additionalNames)), SaltBytes)),
   err |-> "nil"]

NoAid == [databaseName |-> <<>>, additionalNames |-> <<>>, token |-> <<>>, err |-> "none"]

IdInit == aid = [p \in Procs |-> NoAid]

\* a process calls GenerateAdvisoryLockId
GenerateCall(p) ==
  /\ \E n \in DatabaseNames, a \in AdditionalNames :
       LET r == GenerateAdvisoryLockId(n, a) IN
       aid' = [aid EXCEPT ![p] = [databaseName |-> n, additionalNames |-> a,
                                  token |-> r.token, err |-> r.err]]
  /\ UNCHANGED <<regVars, drvVars, lockVars, rcvVars, poolVars, runVars>>

IdNext == \E p \in Procs : GenerateCall(p)

(* ====================================================================== *)
(*                 METHODS RECEIVERS OF THE NAMED-METHOD DRIVERS           *)
(* ====================================================================== *)
(* The drivers' init functions have run: "generic", "mongodb" and          *)
(* "postgres" are registered.  A caller registers receivers and makes      *)
(* drivers, one call at a time.                                            *)
(***************************************************************************)

Registered == {"generic", "mongodb", "postgres"}
\* the drivers that implement GoMethodsDriver
GoMethodsDrivers == {"generic", "mongodb"}
DriverNames == Registered \cup {"unknown"}
\* receiver objects: "nil"; "a" and "b" have a DbName method, "plain" has not
Receivers == {"nil", "a", "b", "plain"}

NoRcvRes == [op |-> "none", name |-> "", receiver |-> "nil", outcome |-> "none",
             before |-> 0, opened |-> FALSE]

RcvInit ==
  /\ fnInitOptions = [n \in Registered |-> <<>>]
  /\ rcvRes = NoRcvRes

\* SetMethodsReceiver: the mongodb driver wants a receiver with DbName
SetMethodsReceiver(k, r) ==
  IF k = "mongodb" /\ r = "plain" THEN "WrongMethodsReceiverType" ELSE "nil"

\* the init functions registered by RegisterMethodsReceiverForDriver, run in
\* order on the driver fnGenerator made (rcv: its methods receiver so far)
RECURSIVE RunInitOptions(_, _, _, _)
RunInitOptions(k, options, i, rcv) ==
  IF i > Len(options) THEN [panic |-> "none", receiver |-> rcv]
  ELSE IF rcv # "nil" THEN [panic |-> "panic: receiver already registered", receiver |-> rcv]
  ELSE IF SetMethodsReceiver(k, options[i]) # "nil"
  THEN [panic |-> "panic: failed to set methods receiver", receiver |-> rcv]
  ELSE RunInitOptions(k, options, i + 1, options[i])

\* DriverGenerator.Generate
Generate(k, options) == RunInitOptions(k, options, 1, "nil")

\* RegisterMethodsReceiverForDriver(driverName, receiver), under
\* methodsReceiversMu; a panic unwinds through the deferred Unlock
RegisterReceiver ==
  \E name \in DriverNames, r \in Receivers :
    LET options == IF name \in Registered THEN fnInitOptions[name] ELSE <<>>
        g == Generate(name, options)
        out == IF r = "nil" THEN "panic: receiver is nil"
               ELSE IF name \notin Registered THEN "panic: not registered driver"
               ELSE IF g.panic # "none" THEN g.panic
               ELSE IF name \notin GoMethodsDrivers THEN "panic: non go methods driver"
               ELSE "returned"
    IN /\ fnInitOptions' = IF out = "returned"
                           THEN [fnInitOptions EXCEPT ![name] = Append(@, r)]
                           ELSE fnInitOptions
       /\ rcvRes' = [op |-> "Register", name |-> name, receiver |-> r, outcome |-> out,
                     before |-> Len(options), opened |-> FALSE]
       /\ UNCHANGED <<regVars, drvVars, lockVars, idVars, poolVars, runVars>>

\* the mongodb driver's checks before it dials: the receiver, then the scheme
MongoConfigError(hasReceiver, schemeOk) ==
  IF ~hasReceiver THEN "UnregisteredMethodsReceiver"
  ELSE IF ~schemeOk THEN "invalid mongodb:// scheme"
  ELSE "nil"

\* driver.New for a registered driver: Generate, then Initialize (opened: the
\* driver went on to open a connection)
NewDriver ==
  \E name \in Registered, dbType \in {"", "postgres"}, schemeOk, openOk \in BOOLEAN :
    LET g == Generate(name, fnInitOptions[name])
        cfg == IF name = "generic" THEN GenericConfigError(g.receiver # "nil", dbType)
               ELSE IF name = "mongodb" THEN MongoConfigError(g.receiver # "nil", schemeOk)
               ELSE "nil"
        out == IF g.panic # "none" THEN g.panic
               ELSE IF cfg # "nil" THEN cfg
               ELSE IF ~openOk THEN "open failed"
               ELSE "driver"
    IN /\ rcvRes' = [op |-> "New", name |-> name, receiver |-> g.receiver, outcome |-> out,
                     before |-> Len(fnInitOptions[name]),
                     opened |-> (g.panic = "none" /\ cfg = "nil")]
       /\ UNCHANGED <<regVars, drvVars, lockVars, idVars, poolVars, runVars, fnInitOptions>>

RcvNext == RegisterReceiver \/ NewDriver

(* ====================================================================== *)
(*               LOCK AND UNLOCK ON A POOLED CONNECTION HANDLE             *)
(* ====================================================================== *)
(* Driver.db is an *sql.DB: a pool that runs each ExecContext on a         *)
(* connection of its choosing.  The advisory lock belongs to the session   *)
(* that ran pg_advisory_lock; one caller calls Lock and Unlock, one call   *)
(* at a time.                                                              *)
(***************************************************************************)

Sessions == 1..NumSessions
NoSession == 0

PoolInit ==
  /\ poolIsLocked = FALSE
  /\ poolHeld = [s \in Sessions |-> 0]
  /\ poolPc = "idle"
  /\ poolConn = NoSession
  /\ poolRes = NoProcRes

\* Lock(): the isLocked check; then p.db.ExecContext(pg_advisory_lock) goes
\* to a connection of the pool
PoolLock ==
  /\ poolPc = "idle"
  /\ LET r == Lock(poolIsLocked, 0, TRUE) IN
     IF ~r.exec
     THEN /\ poolRes' = ProcRes("Lock", r.err, r.exec)
          /\ UNCHANGED <<poolPc, poolConn>>
     ELSE /\ \E s \in Sessions : poolConn' = s
          /\ poolPc' = "wait"
          /\ poolRes' = NoProcRes
  /\ UNCHANGED <<regVars, drvVars, lockVars, idVars, rcvVars, runVars, poolIsLocked, poolHeld>>

\* the backend grants the lock to the session that asked: it waits while
\* another session holds it, and counts a lock the session takes again
PoolLockGranted ==
  /\ poolPc = "wait"
  /\ AdvisoryLockFree(poolHeld, poolConn)
  /\ poolHeld[poolConn] < MaxHolds
  /\ LET r == Lock(poolIsLocked, poolHeld[poolConn], TRUE) IN
       /\ poolHeld' = [poolHeld EXCEPT ![poolConn] = r.advLock]
       /\ poolIsLocked' = r.isLocked
       /\ poolRes' = ProcRes("Lock", r.err, r.exec)
  /\ poolPc' = "idle"
  /\ UNCHANGED <<regVars, drvVars, lockVars, idVars, rcvVars, runVars, poolConn>>

\* the lock command fails: "try lock failed"
PoolLockFailed ==
  /\ poolPc = "wait"
  /\ LET r == Lock(poolIsLocked, poolHeld[poolConn], FALSE) IN
       /\ poolHeld' = [poolHeld EXCEPT ![poolConn] = r.advLock]
       /\ poolIsLocked' = r.isLocked
       /\ poolRes' = ProcRes("Lock", r.err, r.exec)
  /\ poolPc' = "idle"
  /\ UNCHANGED <<regVars, drvVars, lockVars, idVars, rcvVars, runVars, poolConn>>

\* Unlock(): the isLocked check; then p.db.ExecContext(pg_advisory_unlock)
\* goes to a connection of the pool, which releases what that session holds
PoolUnlock ==
  /\ poolPc = "idle"
  /\ \E s \in Sessions, execOk \in BOOLEAN :
       LET r == Unlock(poolIsLocked, poolHeld[s], execOk) IN
       /\ poolHeld' = [poolHeld EXCEPT ![s] = r.advLock]
       /\ poolIsLocked' = r.isLocked
       /\ poolConn' = IF r.exec THEN s ELSE poolConn
       /\ poolRes' = ProcRes("Unlock", r.err, r.exec)
  /\ UNCHANGED poolPc
  /\ UNCHANGED <<regVars, drvVars, lockVars, idVars, rcvVars, runVars>>

PoolNext == PoolLock \/ PoolLockGranted \/ PoolLockFailed \/ PoolUnlock

(* ====================================================================== *)
(*                 RUNNERS MIGRATING THE SAME DATABASE                     *)
(* ====================================================================== *)
(* Each runner is a process with an initialized postgres Driver of its     *)
(* own; the version table exists, version is its primary key.  A runner    *)
(* migrates Up files, one Migrate call at a time, one statement a step.    *)
(***************************************************************************)

Runners == 1..NumRunners

NoRun == [err |-> "nil", committed |-> FALSE, overlapped |-> FALSE]
UpFile(v) == [version |-> v, direction |-> Up, methods |-> <<>>]

RunInit ==
  /\ runPc = [r \in Runners |-> "idle"]
  /\ runF = [r \in Runners |-> 0]
  /\ runTx = [r \in Runners |-> NoTx]
  /\ runRes = [r \in Runners |-> NoRun]
  /\ runCalls = [r \in Runners |-> 0]
  /\ runLeaked = [r \in Runners |-> {}]
  /\ runTable = [v \in Versions |-> 0]
  /\ runData = [v \in Versions |-> 0]

\* the versions that have a committed row
RowsOf(t) == {v \in DOMAIN t : t[v] > 0}

\* the row locks a statement of runner r has to wait for: those of the other
\* runners' unfinished transactions, and of every transaction never ended
HeldAgainst(r) ==
  UNION ({runLeaked[q] : q \in Runners}
         \cup {LeakedLocks(runTx[q], {}) : q \in Runners \ {r}})

\* go d.Migrate(f, pipe) up to the connection check
RunStart(r) ==
  /\ runPc[r] = "idle" /\ runCalls[r] < MaxCalls
  /\ \E v \in Versions : runF' = [runF EXCEPT ![r] = v]
  /\ \E pingOk \in BOOLEAN :
       LET c == EnsureConnectionNotClosed("open", pingOk, TRUE) IN
       /\ runPc' = [runPc EXCEPT ![r] = IF c.err = "nil" THEN AfterEnsure("postgres") ELSE "ret"]
       /\ runRes' = [runRes EXCEPT ![r] = [NoRun EXCEPT !.err = c.err]]
  /\ runCalls' = [runCalls EXCEPT ![r] = @ + 1]
  /\ runTx' = [runTx EXCEPT ![r] = NoTx]
  /\ UNCHANGED <<regVars, drvVars, lockVars, idVars, rcvVars, poolVars, runLeaked, runTable, runData>>

\* tx, err := driver.db.Begin()
RunBegin(r) ==
  /\ runPc[r] = "begin"
  /\ \/ /\ runTx' = [runTx EXCEPT ![r].state = "open"]
        /\ runPc' = [runPc EXCEPT ![r] = "mutate"]
        /\ UNCHANGED runRes
     \/ /\ runRes' = [runRes EXCEPT ![r].err = "begin failed"]
        /\ runPc' = [runPc EXCEPT ![r] = "ret"]
        /\ UNCHANGED runTx
  /\ UNCHANGED <<regVars, drvVars, lockVars, idVars, rcvVars, poolVars, runF, runCalls, runLeaked, runTable, runData>>

\* tx.Exec of the INSERT: it waits for an unfinished transaction that holds
\* the version, and the primary key rejects a version that is a committed row
RunInsert(r) ==
  /\ runPc[r] = "mutate"
  /\ ~InsertBlocked(HeldAgainst(r), runF[r])
  /\ \E execOk \in BOOLEAN :
       IF execOk /\ ~InsertFails(TRUE, RowsOf(runTable), runF[r])
       THEN /\ runTx' = [runTx EXCEPT ![r].ins = InsertedRows(UpFile(runF[r]))]
            /\ runPc' = [runPc EXCEPT ![r] = "read"]
            /\ runRes' = [runRes EXCEPT ![r].overlapped =
                  \E q \in Runners \ {r} : runF[q] = runF[r] /\ runPc[q] \notin {"idle", "crashed"}]
       ELSE /\ runRes' = [runRes EXCEPT ![r].err = "exec failed", ![r].overlapped =
                  \E q \in Runners \ {r} : runF[q] = runF[r] /\ runPc[q] \notin {"idle", "crashed"}]
            /\ runPc' = [runPc EXCEPT ![r] = "rollback"]
            /\ UNCHANGED runTx
  /\ UNCHANGED <<regVars, drvVars, lockVars, idVars, rcvVars, poolVars, runF, runCalls, runLeaked, runTable, runData>>

\* f.ReadContent()
RunRead(r) ==
  /\ runPc[r] = "read"
  /\ \/ runPc' = [runPc EXCEPT ![r] = "exec"] /\ UNCHANGED runRes
     \/ /\ runRes' = [runRes EXCEPT ![r].err = "read failed"]
        /\ runPc' = [runPc EXCEPT ![r] = AfterReadError]
  /\ UNCHANGED <<regVars, drvVars, lockVars, idVars, rcvVars, poolVars, runF, runTx, runCalls, runLeaked, runTable, runData>>

\* tx.Exec(string(f.Content)); the panic of the type assertion ends the
\* process, and the backend ends the transactions of its connections
RunExec(r) ==
  /\ runPc[r] = "exec"
  /\ \E o \in ExecOutcomes :
       IF o = "ok"
       THEN /\ runTx' = [runTx EXCEPT ![r].add = ContentAdds(UpFile(runF[r]), {1})]
            /\ runPc' = [runPc EXCEPT ![r] = "commit"]
            /\ UNCHANGED <<runRes, runLeaked>>
       ELSE IF o = "other error"
       THEN /\ runPc' = [runPc EXCEPT ![r] = "crashed"]
            /\ runTx' = [runTx EXCEPT ![r].state = "aborted"]
            /\ runLeaked' = [runLeaked EXCEPT ![r] = {}]
            /\ runRes' = [runRes EXCEPT ![r].err = "panic"]
       ELSE /\ runRes' = [runRes EXCEPT ![r].err = o]
            /\ runPc' = [runPc EXCEPT ![r] = "rollback"]
            /\ UNCHANGED <<runTx, runLeaked>>
  /\ UNCHANGED <<regVars, drvVars, lockVars, idVars, rcvVars, poolVars, runF, runCalls, runTable, runData>>

\* tx.Rollback()
RunRollback(r) ==
  /\ runPc[r] = "rollback"
  /\ \/ runTx' = [runTx EXCEPT ![r].state = "rolled back"]
     \/ runTx' = [runTx EXCEPT ![r].state = "rollback failed"]
  /\ runPc' = [runPc EXCEPT ![r] = "ret"]
  /\ UNCHANGED <<regVars, drvVars, lockVars, idVars, rcvVars, poolVars, runF, runRes, runCalls, runLeaked, runTable, runData>>

\* the rows of version v after a commit of transaction t, n before it
CommitCount(n, t, v) == n + Cardinality({w \in t.ins : w = v})
\* how often the content of version v is persisted after that commit
CommitContent(n, t, v) == n + Cardinality({e \in t.add : e[1] = v})

\* tx.Commit()
RunCommit(r) ==
  /\ runPc[r] = "commit"
  /\ \/ /\ runTx' = [runTx EXCEPT ![r].state = "committed"]
        /\ runTable' = [v \in Versions |-> CommitCount(runTable[v], runTx[r], v)]
        /\ runData' = [v \in Versions |-> CommitContent(runData[v], runTx[r], v)]
        /\ runRes' = [runRes EXCEPT ![r].committed = TRUE]
     \/ /\ runTx' = [runTx EXCEPT ![r].state = "commit failed"]
        /\ runRes' = [runRes EXCEPT ![r].err = "commit failed"]
        /\ UNCHANGED <<runTable, runData>>
  /\ runPc' = [runPc EXCEPT ![r] = "ret"]
  /\ UNCHANGED <<regVars, drvVars, lockVars, idVars, rcvVars, poolVars, runF, runCalls, runLeaked>>

\* Migrate returns; a transaction it did not end keeps its row locks
RunReturn(r) ==
  /\ runPc[r] = "ret"
  /\ runPc' = [runPc EXCEPT ![r] = "idle"]
  /\ runLeaked' = [runLeaked EXCEPT ![r] = @ \cup LeakedLocks(runTx[r], {})]
  /\ UNCHANGED <<regVars, drvVars, lockVars, idVars, rcvVars, poolVars, runF, runTx, runRes, runCalls, runTable, runData>>

RunNext ==
  \E r \in Runners :
    \/ RunStart(r)
    \/ RunBegin(r)
    \/ RunInsert(r)
    \/ RunRead(r)
    \/ RunExec(r)
    \/ RunRollback(r)
    \/ RunCommit(r)
    \/ RunReturn(r)

\* the statements of a running Migrate of the postgres driver
MigrateStep ==
  \/ Echo
  \/ Ensure
  \/ Begin
  \/ MutateTx
  \/ ReadContent
  \/ ExecContent
  \/ Rollback
  \/ Commit
  \/ Return
  \/ Panic

\* a caller migrating files with the postgres driver and reading each pipe
PipeNext ==
  \/ Construct("postgres")
  \/ Initialize
  \/ StartMigrate
  \/ MigrateStep
  \/ Receive

\* a caller constructing, initializing and closing a driver
SetupNext ==
  \/ \E k \in {"postgres", "generic"} : Construct(k)
  \/ InitializeAny
  \/ Close
  \/ Version

\* the generic driver migrating named-method files
MethodsNext ==
  \/ Construct("generic")
  \/ Initialize
  \/ StartMigrateNamed
  \/ Echo
  \/ MigratorValidate
  \/ MigratorInvoke
  \/ Ensure
  \/ MutateDirect
  \/ Return
  \/ Receive

(* ------------------------------------------------------ specifications *)

Init == RegInit /\ DrvInit /\ LockInit /\ IdInit /\ RcvInit /\ PoolInit /\ RunInit

\* one caller, one driver instance, one backend
Spec == Init /\ [][DrvNext]_vars

\* goroutines calling the registry concurrently
SpecRegistry == Init /\ [][RegNext]_vars

\* processes bootstrapping and locking against one backend
SpecLock == Init /\ [][LockNext]_vars

\* one caller migrating named-method files with the generic driver
SpecMethods == Init /\ [][MethodsNext]_vars

\* processes computing advisory lock ids
SpecLockId == Init /\ [][IdNext]_vars

\* the same caller as in PipeNext; the goroutine of Migrate is scheduled and
\* its statements return, and the consumer goes on reading
SpecPipe == Init /\ [][PipeNext]_vars /\ WF_vars(MigrateStep) /\ WF_vars(Receive)

\* a caller setting a driver up, with urls of all shapes
SpecSetup == Init /\ [][SetupNext]_vars

\* a caller registering methods receivers and making drivers
SpecReceiver == Init /\ [][RcvNext]_vars

\* one caller locking and unlocking a driver whose handle is a pool
SpecPool == Init /\ [][PoolNext]_vars

\* runners migrating Up files against one database concurrently
SpecRunners == Init /\ [][RunNext]_vars

(* ====================================================================== *)
(*                               PROPERTIES                                *)
(* ====================================================================== *)

\* a Migrate call has been made and its record is still there
Called == f # NoFile
\* the pipe of the call is closed: the consumer has seen all of it
PipeClosed == Called /\ pc \in {"idle", "crashed"}
ErrAt(steps) == \E i \in 1..Len(pipe) : pipe[i].type = "err" /\ pipe[i].at \in steps
MaxOf(S) == IF S = {} THEN 0 ELSE CHOOSE v \in S : \A w \in S : w <= v

\* C1: in every Migrate call of either driver, on every exit path, the pipe is
\* closed exactly once, the close is the last thing that happens on the pipe
\* (nothing is sent after it), and it happens only as Migrate returns: while
\* the call is running the pipe is open.
C1_PipeClosedOnceOnReturn ==
  /\ (Called /\ pc \notin {"idle", "crashed"}) => Closes(pipe) = 0
  /\ PipeClosed => /\ Closes(pipe) = 1
                   /\ pipe[Len(pipe)].type = "close"

\* C1 witness: a postgres call that failed twice (the statement, then the
\* rollback) has returned and its pipe is closed after both errors.
C1_Witness ==
  /\ kind = "postgres" /\ pc = "idle" /\ Len(pipe) = 4
  /\ pipe[2].type = "err" /\ pipe[3].at = "rollback" /\ pipe[4].type = "close"

\* C2: once a Migrate call is past its first statement, the first value on the
\* pipe is the input file, no later value is a file (it is sent exactly once),
\* and so every error value comes after it.
C2_FileEchoedFirst ==
  (Called /\ pc # "echo") =>
     /\ Len(pipe) >= 1
     /\ pipe[1] = FileEv(f)
     /\ \A i \in 2..Len(pipe) : pipe[i].type # "file"

\* C2 witness: a finished call whose pipe holds the file and then an error.
C2_Witness ==
  /\ pc = "idle" /\ Len(pipe) >= 3
  /\ pipe[1].type = "file" /\ pipe[1].version = f.version /\ pipe[2].type = "err"

\* C3 as stated: whenever a closed pipe carries an error, neither the version
\* row change nor any effect of the content is persisted, for every driver.
C3_ErrorMeansNothingPersisted ==
  (PipeClosed /\ HasErr(pipe)) => (table = pre.table /\ data = pre.data)

\* C3 as amended: whenever a closed pipe carries an error, the version table is
\* as it was before the call, for every driver; in the postgres driver the
\* data is as it was before the call, too.
C3_ErrorMeansVersionRowNotPersisted ==
  (PipeClosed /\ HasErr(pipe)) =>
     /\ table = pre.table
     /\ kind = "postgres" => data = pre.data

\* C3 witness: a generic call that reported an error after its methods ran: the
\* version table is untouched, the data is not.
C3_Witness ==
  /\ kind = "generic" /\ PipeClosed /\ HasErr(pipe)
  /\ table = pre.table /\ data # pre.data

\* C4: when a postgres Migrate has returned after a failure of Begin, of the
\* version-table statement, of ReadContent or of the content's execution, no
\* transaction of the call is left open (none was begun, or Rollback was
\* called on it); and a committed transaction means no step failed.
C4_FailureRollsBack ==
  (kind = "postgres" /\ Called /\ pc = "idle") =>
     /\ ErrAt({"begin", "mutate", "read", "exec"}) =>
           tx.state \in {"none", "rolled back", "rollback failed"}
     /\ tx.state = "committed" => ~HasErr(pipe)

\* C5: when a postgres Migrate's pipe is closed, either the version row change
\* and the content's effects are both persisted and no error was sent, or the
\* version table and the data are both as before the call; and a pipe with no
\* error on it means the transaction was committed.
C5_BothOrNeither ==
  (kind = "postgres" /\ PipeClosed) =>
     /\ \/ /\ table = Applied(pre.table, f)
           /\ data = (pre.data \ ContentRemoves(f, {1})) \cup ContentAdds(f, {1})
           /\ ~HasErr(pipe)
        \/ /\ table = pre.table
           /\ data = pre.data
     /\ ~HasErr(pipe) => tx.state = "committed"

\* C6: when a successful Migrate of the Down file of version v directly
\* follows a successful Migrate of the Up file of v, Version() is what it was
\* before the Up, and the version table has no row for v.
C6_RoundTrip ==
  roundTrip # NoSnap =>
     /\ CurrentVersion(table) = roundTrip.before
     /\ roundTrip.version \notin table

\* C6 witness: version 1 was applied and reverted while version 2 was recorded.
C6_Witness == roundTrip # NoSnap /\ roundTrip.version = 1 /\ roundTrip.before = 2

\* C7: Version() returns the greatest version of the table and no error, 0 and
\* no error when the table has no row; it returns an error exactly when the
\* connection check or the query failed, and then the version is 0.
C7_VersionResult ==
  result.op = "Version" =>
     /\ result.err = "nil" =>
          /\ table = {} => result.version = 0
          /\ table # {} => (result.version \in table /\ \A v \in table : v <= result.version)
     /\ result.err # "nil" => result.version = 0
     /\ (result.err # "nil") <=> (result.connFailed \/ result.queryFailed)

\* C7 witness: Version() returned 2 from a table holding 1 and 2.
C7_Witness ==
  result.op = "Version" /\ result.err = "nil" /\ result.version = 2 /\ table = {1, 2}

\* C8: the version table always holds exactly the versions whose Up was
\* committed and not their Down since, so Version() is the greatest of them
\* (0 when there is none); and every change of the table is the insertion of
\* the current Up file's version or the deletion of the current Down file's.
C8_TableIsAppliedVersions ==
  /\ [](table = applied /\ CurrentVersion(table) = MaxOf(applied))
  /\ [][table' # table =>
          \/ f.direction = Up /\ f.version \notin table /\ table' = table \cup {f.version}
          \/ f.direction = Down /\ f.version \in table /\ table' = table \ {f.version}]_vars

\* C8 witness: after Up 1, Up 2, Down 2 the table holds version 1 alone.
C8_Witness == roundTrip # NoSnap /\ roundTrip.version = 2 /\ table = {1} /\ applied = {1}

RegFinished(g, op) == rcall[g].op = op /\ rpc[g] \in {"unlock", "new", "verify", "init", "idle"}
InCritical(g) == rpc[g] \in {"body", "store", "unlock"}

\* C9: a RegisterDriver that finds its name registered panics, and the entry
\* of a name is always the first generator stored under it; GetDriverGenerator
\* of a name that was never registered returns (nil, false), and New of such a
\* scheme returns a nil driver and the not-found error, neither panics.
C9_DuplicatePanicsLookupNotFound ==
  /\ \A n \in Names : drivers[n] = firstGen[n]
  /\ \A g \in Goroutines :
       /\ (RegFinished(g, "RegisterDriver") /\ rfound[g].ok) => rret[g].kind = "panic_dup"
       /\ (RegFinished(g, "GetDriverGenerator") /\ regWins[rcall[g].name] = 0) =>
             rret[g] = Ret("lookup", NoGen, FALSE, <<>>)
       /\ (rcall[g].op = "New" /\ rcall[g].name \in Names /\ rpc[g] = "idle"
             /\ regWins[rcall[g].name] = 0) =>
             rret[g] = Ret("error_notfound", NoGen, FALSE, <<>>)

\* C9 witness: one goroutine's RegisterDriver has panicked on a duplicate and
\* another's New has returned not-found.
C9_Witness ==
  \E g, h \in Goroutines :
     /\ rpc[g] = "idle" /\ rret[g].kind = "panic_dup"
     /\ rpc[h] = "idle" /\ rcall[h].op = "New" /\ rret[h].kind = "error_notfound"

\* C10: at most one goroutine is between driversMu.Lock and Unlock, and it is
\* the holder; per name at most one RegisterDriver stores an entry, and every
\* finished RegisterDriver of a non-nil generator either stored it or panicked
\* on the duplicate while exactly one call stored; no lookup or listing ran
\* while an entry was being stored.
C10_RegistryMutualExclusion ==
  /\ Cardinality({g \in Goroutines : InCritical(g)}) <= 1
  /\ \A g \in Goroutines : InCritical(g) => driversMu = g
  /\ \A n \in Names : regWins[n] <= 1
  /\ \A g \in Goroutines :
       (RegFinished(g, "RegisterDriver") /\ rcall[g].gen.fn = "func") =>
          /\ regWins[rcall[g].name] = 1
          /\ rret[g].kind \in {"registered", "panic_dup"}
          /\ rret[g].kind = "registered" => drivers[rcall[g].name] = rcall[g].gen
  /\ ~torn

\* C10 witness: two goroutines register the same name at the same time: one has
\* stored its generator and still holds the mutex, the other waits for it.
C10_Witness ==
  \E g, h \in Goroutines :
     /\ g # h
     /\ rcall[g].op = "RegisterDriver" /\ rcall[h].op = "RegisterDriver"
     /\ rcall[g].name = rcall[h].name /\ rcall[h].gen.fn = "func"
     /\ rpc[g] = "unlock" /\ rret[g].kind = "registered"
     /\ rpc[h] = "lock"

\* an extension New may let through: not empty, no leading dot
ValidExtension(e) == Len(e) > 0 /\ e[1] # "."

LockReturns(p) == procPc[p] \in {"lock", "wait"} /\ procPc'[p] \in {"idle", "create"}
OthersHold(locks, p) == \E q \in Procs : q # p /\ locks[q] > 0

\* C12: a Lock() that finds the driver's isLocked flag set returns ErrLocked
\* at once: no command is sent to the backend, the backend's lock state does
\* not change, and the flag stays set.
C12_LockWhenLockedReturnsErrLocked ==
  [][\A p \in Procs :
       (procPc[p] = "lock" /\ procIsLocked[p] /\ procPc'[p] # "lock") =>
          /\ procPc'[p] = "idle"
          /\ procRes'[p].err = "ErrLocked"
          /\ ~procRes'[p].exec
          /\ procIsLocked'[p]
          /\ sessionLocks' = sessionLocks]_vars

\* C12 witness: a caller's second Lock() has returned ErrLocked while its
\* session still holds the lock it got with the first.
C12_Witness ==
  \E p \in Procs :
     /\ procPc[p] = "idle" /\ procOp[p] = "Lock"
     /\ procRes[p] = ProcRes("Lock", "ErrLocked", FALSE)
     /\ procIsLocked[p] /\ sessionLocks[p] = 1

\* C13: an Unlock() that finds isLocked unset returns nil, sends no command to
\* the backend, and changes neither the driver (handle, flag) nor the backend
\* (who holds the advisory lock, the version table).
C13_UnlockWhenNotLockedIsNoOp ==
  [][\A p \in Procs :
       (procPc[p] = "unlock" /\ ~procIsLocked[p] /\ procPc'[p] # "unlock") =>
          /\ procPc'[p] = "idle"
          /\ procRes'[p].err = "nil"
          /\ ~procRes'[p].exec
          /\ UNCHANGED <<procDb, procIsLocked, sessionLocks, tableCreated>>]_vars

\* C13 witness: Unlock() has returned nil without a command on a driver that
\* does not hold the lock, while another process's session holds it.
C13_Witness ==
  \E p \in Procs :
     /\ procPc[p] = "idle" /\ procOp[p] = "Unlock"
     /\ procRes[p] = ProcRes("Unlock", "nil", FALSE)
     /\ ~procIsLocked[p] /\ sessionLocks[p] = 0
     /\ OthersHold(sessionLocks, p)

\* C14: a Lock() on a driver whose flag is unset returns nil only when the
\* backend has granted the lock to its session (no other session holds it, the
\* flag is set); while another session holds the lock the call stays waiting,
\* and the only other way out is the failure of the command itself, which
\* returns an error and leaves the flag unset.
C14_LockWaitsUntilGranted ==
  [][\A p \in Procs :
       (LockReturns(p) /\ ~procIsLocked[p]) =>
          /\ procRes'[p].exec
          /\ procRes'[p].err \in {"nil", "lock failed"}
          /\ procRes'[p].err = "nil" =>
                /\ procIsLocked'[p]
                /\ sessionLocks'[p] > 0
                /\ ~OthersHold(sessionLocks, p) /\ ~OthersHold(sessionLocks', p)
          /\ procRes'[p].err = "lock failed" =>
                /\ ~procIsLocked'[p]
                /\ sessionLocks' = sessionLocks]_vars

\* C14 witness: one process waits in Lock() while another's session holds the
\* lock, after a third call of some process failed at the command.
C14_Witness ==
  \E p, q \in Procs :
     /\ p # q
     /\ procPc[p] = "wait" /\ ~procIsLocked[p]
     /\ sessionLocks[q] > 0 /\ procIsLocked[q] /\ procRes[q].err = "nil"
     /\ procOp[q] = "Lock" /\ procPc[q] = "idle"

\* C15: among processes running Initialize concurrently, at most one is in
\* the CREATE TABLE step at any time, and the one that is holds the advisory
\* lock.
C15_CreationUnderLock ==
  /\ Cardinality({p \in Procs : procPc[p] = "create"}) <= 1
  /\ \A p \in Procs :
       procPc[p] = "create" =>
          /\ procIsLocked[p] /\ sessionLocks[p] > 0
          /\ ~OthersHold(sessionLocks, p)

\* C15 witness: one process creates the table while another, also in
\* Initialize, waits for the lock.
C15_Witness ==
  \E p, q \in Procs :
     /\ p # q
     /\ procOp[p] = "Initialize" /\ procPc[p] = "create"
     /\ procOp[q] = "Initialize" /\ procPc[q] = "wait"

\* a decimal numeral: digits, no leading zero except for zero itself
IsDecimal(t) ==
  /\ Len(t) >= 1
  /\ \A i \in 1..Len(t) : t[i] \in 0..9
  /\ Len(t) > 1 => t[1] # 0
\* 2^32 - 1
MaxUint32Decimal == <<4, 2, 9, 4, 9, 6, 7, 2, 9, 5>>
\* s <= t for decimal numerals
DecimalLeq(s, t) ==
  \/ Len(s) < Len(t)
  \/ /\ Len(s) = Len(t)
     /\ \/ s = t
        \/ \E i \in 1..Len(s) : /\ s[i] < t[i]
                                /\ \A j \in 1..(i - 1) : s[j] = t[j]
\* the ids the reference implementation (zlib's crc32) gives
KnownIds ==
  { <<Xraydb, <<MigratePostgres>>, <<1, 8, 5, 0, 1, 4, 2, 7, 8, 7>> >>,
    <<Xraydb, <<MigrateGeneric>>, <<3, 2, 0, 5, 8, 3, 7, 2, 8, 7>> >>,
    <<Xraydb, <<>>, <<3, 4, 6, 3, 8, 0, 2, 8, 7, 4>> >>,
    <<<<97>>, <<<<98>>, <<99>>>>, <<1, 7, 3, 4, 4, 0, 9, 3, 0, 9>> >>,
    << <<>>, <<>>, <<0>> >> }

\* C16: every call of GenerateAdvisoryLockId returns a nil error and a decimal
\* numeral between 0 and 2^32 - 1; two calls with the same arguments, in any
\* process, return the same token; and the token is the decimal form of
\* crc32(names) * 1486364155 mod 2^32 (checked against reference values).
C16_LockIdDeterministicInRange ==
  \A p \in Procs :
     aid[p] # NoAid =>
        /\ aid[p].err = "nil"
        /\ IsDecimal(aid[p].token)
        /\ DecimalLeq(aid[p].token, MaxUint32Decimal)
        /\ \A q \in Procs :
             (aid[q] # NoAid /\ aid[q].databaseName = aid[p].databaseName
                /\ aid[q].additionalNames = aid[p].additionalNames) =>
                aid[q].token = aid[p].token
        /\ \A k \in KnownIds :
             (aid[p].databaseName = k[1] /\ aid[p].additionalNames = k[2]) =>
                aid[p].token = k[3]

\* C16 witness: one process has the postgres driver's id, another the generic
\* driver's, and the two differ.
C16_Witness ==
  \E p, q \in Procs :
     /\ aid[p].databaseName = Xraydb /\ aid[p].additionalNames = <<MigratePostgres>>
     /\ aid[q].databaseName = Xraydb /\ aid[q].additionalNames = <<MigrateGeneric>>
     /\ aid[p].err = "nil" /\ aid[q].err = "nil"
     /\ aid[p].token # aid[q].token

\* C17: Close() called after any sequence of operations, among them an
\* Initialize that failed before a connection was stored in the driver, does
\* not panic.  (The code's Close dereferences the nil handle.)
C17_CloseNeverPanics ==
  result.op = "Close" => result.err # "panic"

\* C18: a Migrate or Version call tries a reopen at most once, and only when
\* the ping reported "sql: database is closed"; any other ping error is
\* returned as it is with the handle unchanged; a failed reopen is returned,
\* not retried, and leaves the handle; and a call whose connection check
\* failed has not touched the version table (Migrate reports the error on the
\* pipe and returns, Version returns 0 and the error).
C18_OneReconnectOnlyWhenClosed ==
  conn # NoConn =>
     /\ conn.attempts <= 1
     /\ conn.attempts = 1 <=> conn.ping = "sql: database is closed"
     /\ conn.ping = "other" => (conn.err = "other" /\ db = conn.before)
     /\ conn.ping = "nil" => (conn.err = "nil" /\ db = conn.before)
     /\ conn.err # "nil" =>
           /\ db = conn.before
           /\ Called => /\ pc \in {"ret", "idle"}
                        /\ ErrAt({"ensure"})
                        /\ ~ErrAt({"begin", "mutate", "exec", "commit", "rollback"})
                        /\ table = pre.table
                        /\ tx = NoTx
           /\ ~Called => /\ result.op = "Version"
                         /\ result.connFailed /\ result.version = 0
                         /\ result.err # "nil"
     /\ (conn.err = "nil" /\ conn.attempts = 1) => (conn.before = "closed" /\ db = "open")

\* C18 witness: a Migrate whose reopen failed has returned, and the table is
\* as the call found it, with a version applied earlier.
C18_Witness ==
  /\ PipeClosed /\ pc = "idle"
  /\ conn.attempts = 1 /\ conn.err = "reopen" /\ conn.before = "closed"
  /\ table = pre.table /\ table # {}

\* the errors on the pipe, in order
ErrorsOnPipe == SelectSeq(pipe, LAMBDA e : e.type = "err")
\* the first listed name that is not a method of the right shape (0: none)
FirstBadName(ms) ==
  IF \E i \in 1..Len(ms) : ms[i] \in {"missing", "wrongsig"}
  THEN CHOOSE i \in 1..Len(ms) : /\ ms[i] \in {"missing", "wrongsig"}
                                 /\ \A j \in 1..(i - 1) : ms[j] \notin {"missing", "wrongsig"}
  ELSE 0
\* the first listed name that cannot be invoked with success (0: none)
FirstFailingName(ms) ==
  IF \E i \in 1..Len(ms) : ms[i] # "ok"
  THEN CHOOSE i \in 1..Len(ms) : ms[i] # "ok" /\ \A j \in 1..(i - 1) : ms[j] = "ok"
  ELSE 0
\* the data after the first k methods of the file ran, in file order
RECURSIVE EffectsUpTo(_, _, _)
EffectsUpTo(file, k, d) ==
  IF k = 0 THEN d
  ELSE (EffectsUpTo(file, k - 1, d) \ ContentRemoves(file, {k})) \cup ContentAdds(file, {k})
\* a named-method Migrate of the generic driver is past its migrator
NamedDone == kind = "generic" /\ Called /\ pc = "ret" /\ ~ErrAt({"read"})

C21_SecondReceiverPanics ==
  /\ (/\ rcvRes.op = "Register" /\ rcvRes.name \in GoMethodsDrivers
      /\ rcvRes.receiver # "nil" /\ rcvRes.before >= 1) =>
        rcvRes.outcome \notin {"returned", "none"}
  /\ \A n \in GoMethodsDrivers : Len(fnInitOptions[n]) <= 1
  /\ (/\ rcvRes.op = "New" /\ rcvRes.name \in GoMethodsDrivers
      /\ rcvRes.before = 0) =>
        /\ rcvRes.outcome = "UnregisteredMethodsReceiver"
        /\ ~rcvRes.opened

OtherPairs(q) == {q[i] : i \in {j \in 1..Len(q) : q[j][1] # DbTypeKey}}
\* the backend type a url names: the value of its first migrations_db_type
\* pair, "" when it has none
NamedDbType(u) ==
  LET at == {i \in 1..Len(u.query) : u.query[i][1] = DbTypeKey} IN
  IF at = {} THEN "" ELSE u.query[CHOOSE i \in at : \A j \in at : i <= j][2]

\* C23: when the generic driver (with a receiver) is initialized with a url
\* whose migrations_db_type is missing, empty or not a supported backend,
\* Initialize returns a configuration error, opens no connection, and leaves
\* db, url and the lock flag as they were; when the parameter names postgres,
\* the url that is opened has the scheme postgres, no migrations_db_type
\* parameter, and exactly the other parameters of the url given.
C23_DbTypeRequiredAndStripped ==
  /\ []((/\ kind = "generic" /\ receiver /\ result.op = "Initialize"
          /\ initCall.arg.parses) =>
          IF NamedDbType(initCall.arg) = "postgres"
          THEN /\ result.err \notin {"parameter not provided", "could not deduce schema"}
               /\ initCall.dialed # NoUrl
               /\ initCall.dialed.scheme = "postgres"
               /\ \A i \in 1..Len(initCall.dialed.query) :
                     initCall.dialed.query[i][1] # DbTypeKey
               /\ OtherPairs(initCall.dialed.query) = OtherPairs(initCall.arg.query)
               /\ ~result.connFailed => (db = "open" /\ url = initCall.dialed)
          ELSE /\ result.err = (IF NamedDbType(initCall.arg) = ""
                                 THEN "parameter not provided"
                                 ELSE "could not deduce schema")
               /\ initCall.dialed = NoUrl)
  /\ [][(/\ kind = "generic" /\ result'.op = "Initialize"
          /\ result'.err \in {"parameter not provided", "could not deduce schema"}) =>
          <<db, url, isLocked, ready>>' = <<db, url, isLocked, ready>>]_vars

\* C23 witness: a generic driver whose earlier Initialize stored a connection
\* and failed later is initialized with a url naming mysql: a configuration
\* error, nothing opened, the connection and the url still those of before.
C23_Witness ==
  /\ kind = "generic" /\ receiver /\ result.op = "Initialize"
  /\ NamedDbType(initCall.arg) = "mysql"
  /\ Len(initCall.arg.query) = 3
  /\ result.err = "could not deduce schema"
  /\ initCall.dialed = NoUrl
  /\ db = "open" /\ url = Url("postgres", <<<<"application_name", "m">>, <<"sslmode", "disable">>>>)

\* C24: with a consumer that reads the pipe until it is closed, every Migrate
\* that is started terminates: each of its sends is taken, and the pipe is
\* closed and seen closed by the consumer (or the process has ended).
C24_MigrateTerminatesAndCloses ==
  (pc = "echo") ~> \/ pc = "idle" /\ Closes(pipe) = 1 /\ received = Len(pipe)
                   \/ pc = "crashed"

\* the connection check of the current Migrate call has been made
ConnChecked == conn.ping # "none"

\* C25 as stated: in both drivers the connection check comes first after the
\* echo: a call that has begun a transaction, is at or past the version-table
\* statement, is executing content or is invoking methods has made its check.
C25_ConnectionCheckFirst ==
  Called =>
    /\ pc \in {"begin", "mutate", "read", "exec", "rollback", "commit"} => ConnChecked
    /\ pc = "invoke" => ConnChecked
    /\ (table # pre.table \/ data # pre.data) => ConnChecked

\* C25, amended: in the postgres driver the connection check is the first
\* step after the echo, before the transaction, the version-table statement
\* and the content; in the generic driver the migrator validates and invokes
\* the methods first, unchecked, and the check comes after the last method
\* and before the version-table statement; in both drivers the version table
\* is changed only after a check that succeeded.
C25_CheckBeforeVersionRow ==
  Called =>
    /\ (kind = "postgres" /\ pc \notin {"echo", "ensure"}) => ConnChecked
    /\ (kind = "postgres" /\ (tx.state # "none" \/ data # pre.data)) =>
          (ConnChecked /\ conn.err = "nil")
    /\ (kind = "generic" /\ pc \in {"migrator", "invoke", "ensure"}) => ~ConnChecked
    /\ (kind = "generic" /\ pc = "ensure") =>
          data = EffectsUpTo(f, Len(f.methods), pre.data)
    /\ (pc = "mutate" \/ table # pre.table) => (ConnChecked /\ conn.err = "nil")

\* C25 witness: a generic Migrate is about to check its connection, and the
\* two methods of its file have already run.
C25_Witness ==
  /\ Called /\ kind = "generic" /\ pc = "ensure" /\ ~ConnChecked
  /\ f.direction = Up /\ Len(f.methods) = 2
  /\ {<<f.version, 1>>, <<f.version, 2>>} \subseteq data
  /\ pre.data = {}

\* C26: in the postgres driver a failure of executing the content, whatever
\* error the backend client returns, puts exactly one error on the pipe (with
\* the position when it parses, without it otherwise) and is followed by a
\* rollback; Migrate does not panic.
C26_ExecFailureReportedOnce ==
  (kind = "postgres" /\ Called) =>
    /\ pc # "panic"
    /\ (pc = "rollback" /\ ~ErrAt({"mutate"})) =>
          /\ Len(ErrorsOnPipe) = 1
          /\ ErrorsOnPipe[1].at = "exec"
          /\ ErrorsOnPipe[1].what \in {"pq error with position", "pq error"}
    /\ (pc = "idle" /\ ErrAt({"exec"})) => tx.state \in {"rolled back", "rollback failed"}

\* C27: the bootstrap step runs CREATE TABLE only with the lock flag set, and
\* its deferred Unlock runs whether the creation succeeded or failed: when
\* Initialize has returned without an Unlock error the flag is unset; the
\* flag stays set only when Unlock failed, and then
\* Initialize returns the Unlock error, or both errors when the creation had
\* failed too.
C27_BootstrapReleasesLock ==
  /\ [](\A p \in Procs :
          /\ procPc[p] = "create" => procIsLocked[p]
          /\ (procPc[p] = "idle" /\ procRes[p].op = "Initialize") =>
                /\ procRes[p].err \in {"nil", "create failed"} => ~procIsLocked[p]
                /\ procIsLocked[p] => procRes[p].err \in {"unlock failed", "Error1, Error2"})
  /\ [][\A p \in Procs :
          (procPc[p] = "unlock" /\ procOp[p] = "Initialize" /\ procPc'[p] = "idle") =>
             procRes'[p].err =
               IF ~procIsLocked'[p] THEN procRes[p].err
               ELSE IF procRes[p].err = "nil" THEN "unlock failed"
               ELSE "Error1, Error2"]_vars

\* C27 witness: an Initialize whose CREATE TABLE and whose Unlock both failed
\* has returned: both errors, the flag still set, the lock still held.
C27_Witness ==
  \E p \in Procs :
    /\ procPc[p] = "idle" /\ procRes[p].op = "Initialize"
    /\ procRes[p].err = "Error1, Error2"
    /\ procIsLocked[p] /\ sessionLocks[p] = 1
    /\ ~tableCreated
\* the migrator of the call has reported an error
MigratorFailed == ErrAt({"read", "validate", "invoke"})
\* the migrator of the call has gone through the whole file without an error
MigratorDone == ~HasErr(pipe) /\ idx > Len(f.methods)

\* C28: in the named-method driver the version row is written or deleted only
\* after the method migrator has returned without error for the whole file;
\* when the migrator returns an error, Migrate checks no connection and
\* performs no version-table operation, and Version() is what it was before
\* the call
C28_VersionRowOnlyAfterMigrator ==
  /\ []((kind = "generic" /\ Called) =>
          /\ MigratorFailed =>
                /\ pc \in {"ret", "idle"}
                /\ ~ConnChecked
                /\ table = pre.table
                /\ CurrentVersion(table) = CurrentVersion(pre.table)
          /\ pc = "ensure" => MigratorDone
          /\ pc = "mutate" => (MigratorDone /\ ConnChecked))
  /\ [][(kind = "generic" /\ Called /\ table' # table) =>
          (pc = "mutate" /\ MigratorDone /\ ~MigratorFailed)]_vars

\* a named method has run and the next one failed: the data has changed, the
\* version table has not
C28_Witness ==
  /\ kind = "generic" /\ pc = "idle" /\ Called
  /\ ErrAt({"invoke"})
  /\ data # pre.data
  /\ table = pre.table
  /\ ~ConnChecked

\* the two panics of RegisterDriver
RegisterPanics == {"panic_nil", "panic_dup"}
\* goroutine g holds the mutex in a RegisterDriver call that panics
Panicking(g) ==
  /\ driversMu = g /\ rcall[g].op = "RegisterDriver"
  /\ IF rpc[g] = "body"
     THEN rcall[g].gen.fn = "nil" \/ drivers[rcall[g].name] # NoGen
     ELSE rret[g].kind \in RegisterPanics

\* C29: a RegisterDriver call that panics, on a nil constructor function or on
\* a duplicate name, leaves the registry table as it was and releases the
\* registry lock: no step of such a call changes the table, the table holds
\* exactly the entries that non-panicking calls stored, and the mutex is never
\* held by a goroutine whose call is over, so that a later call finds it free
C29_PanickingRegisterLeavesRegistry ==
  /\ [](/\ \A g \in Goroutines :
             (/\ rpc[g] \in {"idle", "lock", "new", "verify", "init"} => driversMu # g
              /\ (rpc[g] = "idle" /\ rret[g].kind \in RegisterPanics) =>
                    /\ rcall[g].op = "RegisterDriver"
                    /\ rret[g].kind = "panic_dup" =>
                          drivers[rcall[g].name] = firstGen[rcall[g].name])
        /\ (\A h \in Goroutines : ~InCritical(h)) => driversMu = NoOne
        /\ \A n \in Names :
              /\ drivers[n].fn # "nil"
              /\ drivers[n] = NoGen <=> regWins[n] = 0)
  /\ [][\A g \in Goroutines :
          /\ Panicking(g) => (drivers' = drivers /\ writing' = writing /\ regWins' = regWins)
          /\ (Panicking(g) /\ rpc[g] = "unlock" /\ rpc'[g] = "idle") => driversMu' = NoOne]_vars

\* one goroutine's RegisterDriver has panicked on a duplicate name; another
\* goroutine has taken the mutex since and is listing the very same table
C29_Witness ==
  \E g, h \in Goroutines :
     /\ g # h
     /\ rpc[g] = "idle" /\ rret[g].kind = "panic_dup"
     /\ drivers[rcall[g].name] = firstGen[rcall[g].name]
     /\ rcall[h].op = "Drivers" /\ rpc[h] = "body" /\ driversMu = h

\* C30: outside a Lock or Unlock call the driver's lock flag agrees with the
\* backend: the flag is set exactly when a session of this driver holds the
\* advisory lock, also when the driver's handle is a pool that may run the
\* lock and the unlock command on different sessions
C30_FlagAgreesWithBackend ==
  poolPc = "idle" => (poolIsLocked <=> \E s \in Sessions : poolHeld[s] > 0)

\* the connection check of the call found the handle closed by Close()
FoundClosed == ConnChecked /\ conn.before = "closed"

\* C31: Close() does not end a driver's life: the next Migrate or Version call
\* on the instance finds the connection closed, dials the stored url once,
\* and with the new connection goes on as any call does; the closed handle is
\* never the reason a call is rejected, only the failure of the reopen is
C31_ServedAfterClose ==
  /\ [](FoundClosed =>
          /\ conn.ping = "sql: database is closed"
          /\ conn.attempts = 1
          /\ conn.dialed = url /\ url = initCall.dialed /\ url # NoUrl
          /\ conn.err \in {"nil", "reopen"}
          /\ conn.err = "nil" =>
                /\ db = "open"
                /\ Called => ~ErrAt({"ensure"})
                /\ ~Called => (result.op = "Version" /\ ~result.connFailed)
          /\ conn.err = "reopen" => db = "closed")
  /\ [][(db = "closed" /\ pc = "ensure" /\ pc' # pc /\ db' = "open") =>
          (pc' = AfterEnsure(kind) /\ pipe' = pipe)]_vars
  /\ [][(ready /\ db = "closed" /\ db' # db) =>
          (db' = "open" /\ url' = url /\ conn'.before = "closed")]_vars

\* a Migrate called after Close() has reopened the connection and committed
\* the Up file of a version: its row is in the version table
C31_Witness ==
  /\ FoundClosed /\ conn.err = "nil" /\ db = "open"
  /\ Called /\ pc = "idle" /\ ~HasErr(pipe)
  /\ f.direction = Up /\ f.version \notin pre.table /\ f.version \in table

\* runner r's current (or last) Migrate has committed the Up file of version v
CommittedUp(r, v) == runF[r] = v /\ runRes[r].committed
\* runner r's transaction holds the uncommitted row of version v
HoldsRow(r, v) == runTx[r].state = "open" /\ v \in runTx[r].ins

\* C32: when runners concurrently migrate the Up file of the same version
\* against one database, at most one of them commits: the version table never
\* holds two rows for a version, the content of a version is persisted at
\* most once, no two runners hold the uncommitted row of a version at a time,
\* and every commit adds the first row of its version
C32_AtMostOneCommits ==
  /\ [](/\ \A v \in Versions : runTable[v] <= 1 /\ runData[v] <= 1
        /\ \A r, q \in Runners, v \in Versions :
              /\ (CommittedUp(r, v) /\ CommittedUp(q, v)) => r = q
              /\ (HoldsRow(r, v) /\ HoldsRow(q, v)) => r = q
              /\ HoldsRow(r, v) => runTable[v] = 0)
  /\ [][\A r \in Runners :
          (runRes'[r].committed /\ ~runRes[r].committed) =>
             /\ runTable[runF[r]] = 0 /\ runTable'[runF[r]] = 1
             /\ runData[runF[r]] = 0 /\ runData'[runF[r]] = 1
             /\ \A v \in Versions \ {runF[r]} :
                   runTable'[v] = runTable[v] /\ runData'[v] = runData[v]]_vars

\* two runners were in Migrate of the same Up file at the same time: one has
\* committed, the other's INSERT was rejected and it has reported the error
C32_Witness ==
  \E r, q \in Runners :
     /\ r # q /\ runF[r] = runF[q]
     /\ runRes[r].committed
     /\ runRes[q].err = "exec failed" /\ runRes[q].overlapped /\ ~runRes[q].committed
     /\ runPc[q] = "idle"
     /\ runTable[runF[r]] = 1 /\ runData[runF[r]] = 1

====
